---- MODULE Spec2Model ----
(***************************************************************************)
(* GopherKV: a sharded in-memory key-value store with TTL, an append-only  *)
(* log (AOF) with online rewrite, and snapshot files (RDB).                 *)
(*                                                                         *)
(* The repository holds two generations of the storage core:               *)
(*   - the Engine generation: storage.Engine, storage.AOF, storage.RDB,    *)
(*     core.Service over them and cmd/kvd/main.go;                         *)
(*   - the ConcurrentMap generation: storage.ConcurrentMap, core.TTLManager *)
(*     and core.Service over them.                                         *)
(* Both are modelled, each with its own variables and specification.       *)
(* Keys, values and file contents are byte sequences (sequences of 0..255).*)
(***************************************************************************)
EXTENDS Integers, Sequences, FiniteSets, TLC

(***************************************************************************)
(* Bounds of the model.                                                    *)
(***************************************************************************)
\* Total number of client operations started in one run of the server.
MaxOps == 2
\* Number of clock ticks (seconds) the model lets pass.
MaxTime == 1
\* log2 of the number of shards (the shard count is kept a power of two).
ShardBits == 1
\* storage.max_memory of the modelled configuration, in bytes.
MaxMemory == 72
\* aof.rewrite_threshold of the modelled configuration, in bytes.
RewriteThreshold == 10
\* Total number of client snapshot operations started.
MaxSnaps == 1
\* Total number of client operations started, the reads included.
MaxCalls == 3
\* Seconds the clock of the auto-save advances.
MaxTicks == 2
\* The Unix time, in seconds, at which the model starts.
Epoch == 1700000000

(***************************************************************************)
(* Bytes.                                                                  *)
(***************************************************************************)
TAB == 9
LF == 10
CR == 13

\* strings.Split(s, sep) for a one-byte separator.
RECURSIVE SplitFrom(_, _, _, _)
SplitFrom(s, sep, i, cur) ==
    IF i > Len(s) THEN << cur >>
    ELSE IF s[i] = sep THEN << cur >> \o SplitFrom(s, sep, i + 1, << >>)
    ELSE SplitFrom(s, sep, i + 1, Append(cur, s[i]))

Split(s, sep) == SplitFrom(s, sep, 1, << >>)

\* The white space strings.TrimSpace removes (ASCII part).
IsSpace(b) == b \in {9, 10, 11, 12, 13, 32}

RECURSIVE TrimLeft(_)
TrimLeft(s) ==
    IF s # << >> /\ IsSpace(Head(s)) THEN TrimLeft(Tail(s)) ELSE s

RECURSIVE TrimRight(_)
TrimRight(s) ==
    IF s # << >> /\ IsSpace(s[Len(s)]) THEN TrimRight(SubSeq(s, 1, Len(s) - 1)) ELSE s

TrimSpace(s) == TrimLeft(TrimRight(s))

\* Lexicographic order on byte sequences: Go's string comparison.
RECURSIVE StrLess(_, _)
StrLess(s, t) ==
    IF t = << >> THEN FALSE
    ELSE IF s = << >> THEN TRUE
    ELSE IF Head(s) # Head(t) THEN Head(s) < Head(t)
    ELSE StrLess(Tail(s), Tail(t))

(***************************************************************************)
(* strconv: decimal formatting (%d) and ParseInt(s, 10, 64).               *)
(***************************************************************************)
RECURSIVE FormatNat(_)
FormatNat(n) ==
    IF n < 10 THEN << 48 + n >> ELSE Append(FormatNat(n \div 10), 48 + (n % 10))

FormatInt(n) == IF n < 0 THEN << 45 >> \o FormatNat(0 - n) ELSE FormatNat(n)

IsDigit(b) == b >= 48 /\ b <= 57

RECURSIVE DigitsValue(_, _)
DigitsValue(s, acc) ==
    IF s = << >> THEN acc ELSE DigitsValue(Tail(s), acc * 10 + (Head(s) - 48))

\* [ok |-> BOOLEAN, val |-> Int]
ParseInt(s) ==
    LET signed == s # << >> /\ Head(s) \in {43, 45}
        digits == IF signed THEN Tail(s) ELSE s
    IN  IF digits = << >> \/ \E i \in DOMAIN digits : ~IsDigit(digits[i])
        THEN [ok |-> FALSE, val |-> 0]
        ELSE [ok |-> TRUE,
              val |-> IF signed /\ Head(s) = 45
                      THEN 0 - DigitsValue(digits, 0)
                      ELSE DigitsValue(digits, 0)]

(***************************************************************************)
(* encoding/base64, StdEncoding (padded).                                  *)
(***************************************************************************)
B64Char(v) ==
    IF v < 26 THEN 65 + v
    ELSE IF v < 52 THEN 97 + (v - 26)
    ELSE IF v < 62 THEN 48 + (v - 52)
    ELSE IF v = 62 THEN 43 ELSE 47

\* The 6-bit value of an alphabet byte, -1 for any other byte.
B64Value(c) ==
    IF c >= 65 /\ c <= 90 THEN c - 65
    ELSE IF c >= 97 /\ c <= 122 THEN c - 97 + 26
    ELSE IF c >= 48 /\ c <= 57 THEN c - 48 + 52
    ELSE IF c = 43 THEN 62
    ELSE IF c = 47 THEN 63 ELSE -1

RECURSIVE EncodeToString(_)
EncodeToString(b) ==
    IF Len(b) = 0 THEN << >>
    ELSE IF Len(b) = 1 THEN
        << B64Char(b[1] \div 4), B64Char((b[1] % 4) * 16), 61, 61 >>
    ELSE IF Len(b) = 2 THEN
        << B64Char(b[1] \div 4), B64Char((b[1] % 4) * 16 + b[2] \div 16),
           B64Char((b[2] % 16) * 4), 61 >>
    ELSE
        << B64Char(b[1] \div 4), B64Char((b[1] % 4) * 16 + b[2] \div 16),
           B64Char((b[2] % 16) * 4 + b[3] \div 64), B64Char(b[3] % 64) >>
        \o EncodeToString(SubSeq(b, 4, Len(b)))

\* [ok |-> BOOLEAN, val |-> bytes]. CR and LF inside the input are skipped,
\* as the Go decoder does; any other byte outside the alphabet, a length that
\* is no multiple of four, or padding out of place is an error.
RECURSIVE DecodeQuads(_)
DecodeQuads(s) ==
    IF s = << >> THEN [ok |-> TRUE, val |-> << >>]
    ELSE IF Len(s) < 4 THEN [ok |-> FALSE, val |-> << >>]
    ELSE
      LET a == B64Value(s[1])
          b == B64Value(s[2])
          c == B64Value(s[3])
          d == B64Value(s[4])
          last == Len(s) = 4
      IN  IF a < 0 \/ b < 0 THEN [ok |-> FALSE, val |-> << >>]
          ELSE IF s[3] = 61 THEN
              IF last /\ s[4] = 61
              THEN [ok |-> TRUE, val |-> << a * 4 + b \div 16 >>]
              ELSE [ok |-> FALSE, val |-> << >>]
          ELSE IF c < 0 THEN [ok |-> FALSE, val |-> << >>]
          ELSE IF s[4] = 61 THEN
              IF last
              THEN [ok |-> TRUE,
                    val |-> << a * 4 + b \div 16, (b % 16) * 16 + c \div 4 >>]
              ELSE [ok |-> FALSE, val |-> << >>]
          ELSE IF d < 0 THEN [ok |-> FALSE, val |-> << >>]
          ELSE
              LET rest == DecodeQuads(SubSeq(s, 5, Len(s)))
              IN  [ok |-> rest.ok,
                   val |-> << a * 4 + b \div 16, (b % 16) * 16 + c \div 4,
                              (c % 4) * 64 + d >> \o rest.val]

DecodeString(s) == DecodeQuads(SelectSeq(s, LAMBDA x : x \notin {CR, LF}))

(***************************************************************************)
(* Keys, values and the configuration of the Engine generation.            *)
(***************************************************************************)
KeyA == << 97 >>
KeyB == << 98 >>
\* A key holding a tab: valid UTF-8, so Engine.validate accepts it.
KeyTab == << 97, TAB, 98 >>
ValShort == << 118 >>
ValLong == << 119, 120, 121, 122 >>

NoProc == "none"
ShardCount == 2 ^ ShardBits
Shards == 0 .. (ShardCount - 1)

RECURSIVE Xor(_, _)
Xor(a, b) ==
    IF a = 0 THEN b
    ELSE IF b = 0 THEN a
    ELSE ((a + b) % 2) + 2 * Xor(a \div 2, b \div 2)

\* utils.HashString is 64-bit FNV-1a. Only its low eight bits reach the shard
\* index of up to 256 shards, and those depend on the low eight bits of the
\* offset basis (0x25) and of the prime (0xb3) alone.
RECURSIVE HashString(_, _)
HashString(s, h) ==
    IF s = << >> THEN h
    ELSE HashString(Tail(s), (Xor(h, Head(s)) * 179) % 256)

shardIndex(key) == HashString(key, 37) % ShardCount

\* The codes of protocol.APIError.
CodeOK == 0
CodeKeyNotFound == 1001
CodeInvalidRequest == 2003
CodeKeyTooLong == 2001
CodeValueTooLarge == 2002
CodeMemoryFull == 3001
CodeInternal == 5001

estimateEntrySize(key, value) == Len(key) + Len(value) + 32

\* An expiry check that lets an entry live through the second it expires in.
isExpiredAfter(expiresAt, t) == expiresAt > 0 /\ expiresAt < t

isExpired(expiresAt, t) == expiresAt > 0 /\ expiresAt <= t

\* Engine.validate with max_key_size 256 and max_value_size 1 MiB: every key
\* of the model but the empty one passes.
validate(key, value) == key # << >> /\ Len(key) <= 256 /\ Len(value) <= 1048576

(***************************************************************************)
(* container/heap over ttlHeap (a slice ordered by expiresAt).             *)
(***************************************************************************)
Swap(h, i, j) == [h EXCEPT ![i] = h[j], ![j] = h[i]]

\* heap.up, with 1-based positions: the parent of j is j \div 2.
RECURSIVE HeapUp(_, _)
HeapUp(h, j) ==
    IF j = 1 THEN h
    ELSE IF h[j].expiresAt < h[j \div 2].expiresAt
         THEN HeapUp(Swap(h, j, j \div 2), j \div 2)
         ELSE h

\* heap.down over the first n elements.
RECURSIVE HeapDown(_, _, _)
HeapDown(h, i, n) ==
    LET l == 2 * i
        r == 2 * i + 1
        j == IF r <= n /\ h[r].expiresAt < h[l].expiresAt THEN r ELSE l
    IN  IF l > n THEN h
        ELSE IF h[j].expiresAt < h[i].expiresAt
             THEN HeapDown(Swap(h, i, j), j, n)
             ELSE h

HeapPush(h, it) == HeapUp(Append(h, it), Len(h) + 1)

\* heap.Pop: swap the root with the last element, sift down, cut the last.
HeapPopRest(h) ==
    LET n == Len(h)
    IN  SubSeq(HeapDown(Swap(h, 1, n), 1, n - 1), 1, n - 1)

(***************************************************************************)
(* Engine: the pure parts of SetWithExpiresAt, Delete and deleteIfExpired. *)
(* A shard's map is a function from the keys it holds to entries.          *)
(***************************************************************************)
Entry(value, expiresAt) == [Value |-> value, ExpiresAt |-> expiresAt]

\* A delete that leaves the map as it is.
MapKeepsKey(m, k) == m

MapPut(m, k, e) == [x \in DOMAIN m \cup {k} |-> IF x = k THEN e ELSE m[x]]
MapDel(m, k) == [x \in DOMAIN m \ {k} |-> m[x]]
EmptyMap == [x \in {} |-> 0]

\* delta of SetWithExpiresAt: the new size, less the old one on overwrite.
SetDelta(m, key, value) ==
    estimateEntrySize(key, value)
      - (IF key \in DOMAIN m THEN estimateEntrySize(key, m[key].Value) ELSE 0)

\* The admission check of SetWithExpiresAt.
MemoryFull(usage, delta) == delta > 0 /\ usage + delta > MaxMemory

\* Whether deleteIfExpired removes the entry of key, called with expiresAt at time t.
ShouldDeleteExpired(m, key, expiresAt, t) ==
    /\ expiresAt # 0
    /\ key \in DOMAIN m
    /\ ~(m[key].ExpiresAt # expiresAt \/ m[key].ExpiresAt = 0 \/ m[key].ExpiresAt > t)


(***************************************************************************)
(* storage.AOF: the line format and parseAOF.                              *)
(***************************************************************************)
SET == << 83, 69, 84 >>
DEL == << 68, 69, 76 >>

\* AppendSet's line: "SET\t%s\t%s\t%d\n".
SetLine(key, value, expiresAt) ==
    SET \o << TAB >> \o key \o << TAB >> \o EncodeToString(value)
        \o << TAB >> \o FormatInt(expiresAt) \o << LF >>

\* AppendDel's line: "DEL\t%s\n".
DelLine(key) == DEL \o << TAB >> \o key \o << LF >>

PersistRecord(key, value, expiresAt) ==
    [Key |-> key, Value |-> value, ExpiresAt |-> expiresAt]

\* The position of the first LF of s at or after i, 0 when there is none.
RECURSIVE IndexLF(_, _)
IndexLF(s, i) ==
    IF i > Len(s) THEN 0 ELSE IF s[i] = LF THEN i ELSE IndexLF(s, i + 1)

\* One line of parseAOF's switch, after TrimSpace and Split: the map kv after
\* the line, or an error.
parseLine(kv, line) ==
    LET parts == Split(line, TAB)
    IN  IF parts[1] = SET THEN
            IF Len(parts) # 4 THEN [ok |-> FALSE, kv |-> kv]
            ELSE LET val == DecodeString(parts[3])
                     exp == ParseInt(parts[4])
                 IN  IF ~val.ok \/ ~exp.ok THEN [ok |-> FALSE, kv |-> kv]
                     ELSE [ok |-> TRUE,
                           kv |-> MapPut(kv, parts[2],
                                         PersistRecord(parts[2], val.val, exp.val))]
        ELSE IF parts[1] = DEL THEN
            IF Len(parts) # 2 THEN [ok |-> FALSE, kv |-> kv]
            ELSE [ok |-> TRUE, kv |-> MapDel(kv, parts[2])]
        ELSE [ok |-> FALSE, kv |-> kv]

\* parseAOF's loop from byte position pos (1-based) with `offset` bytes parsed:
\* [ok, kv, offset]. A last line without LF ends the loop (io.EOF) unparsed.
\* On an error the records are nil: parseAOF returns (nil, offset, err).
RECURSIVE parseFrom(_, _, _)
parseFrom(f, pos, kv) ==
    LET nl == IndexLF(f, pos)
    IN  IF nl = 0 THEN [ok |-> TRUE, kv |-> kv, offset |-> pos - 1]
        ELSE LET line == TrimSpace(SubSeq(f, pos, nl))
             IN  IF line = << >> THEN parseFrom(f, nl + 1, kv)
                 ELSE LET r == parseLine(kv, line)
                      IN  IF r.ok THEN parseFrom(f, nl + 1, r.kv)
                          ELSE [ok |-> FALSE, kv |-> EmptyMap, offset |-> pos - 1]

parseAOF(f) == parseFrom(f, 1, EmptyMap)

(***************************************************************************)
(* storage.RDB: file names, the gob encoding of the records, LoadLatest.   *)
(***************************************************************************)
DumpPrefix == << 100, 117, 109, 112, 45 >>
RdbSuffix == << 46, 114, 100, 98 >>

\* fmt.Sprintf("dump-%d.rdb", time.Now().Unix())
DumpName(t) == DumpPrefix \o FormatInt(t) \o RdbSuffix

HasPrefix(s, p) == Len(s) >= Len(p) /\ SubSeq(s, 1, Len(p)) = p
HasSuffix(s, p) == Len(s) >= Len(p) /\ SubSeq(s, Len(s) - Len(p) + 1, Len(s)) = p

\* gob sends a struct as its non-zero fields only: an empty Key or Value and
\* a zero ExpiresAt are left out, and come back as the zero value on decoding.
GobFields(r) ==
    (IF r.Key # << >> THEN {"Key"} ELSE {})
      \cup (IF r.Value # << >> THEN {"Value"} ELSE {})
      \cup (IF r.ExpiresAt # 0 THEN {"ExpiresAt"} ELSE {})

GobEncodeRecord(r) == [f \in GobFields(r) |-> r[f]]

\* A decoder that loses the expiry of a record.
GobDecodeWithoutExpiry(g) ==
    [Key |-> IF "Key" \in DOMAIN g THEN g["Key"] ELSE << >>,
     Value |-> IF "Value" \in DOMAIN g THEN g["Value"] ELSE << >>,
     ExpiresAt |-> 0]

GobDecodeRecord(g) ==
    [Key |-> IF "Key" \in DOMAIN g THEN g["Key"] ELSE << >>,
     Value |-> IF "Value" \in DOMAIN g THEN g["Value"] ELSE << >>,
     ExpiresAt |-> IF "ExpiresAt" \in DOMAIN g THEN g["ExpiresAt"] ELSE 0]

GobEncode(records) == [i \in DOMAIN records |-> GobEncodeRecord(records[i])]
GobDecode(content) == [i \in DOMAIN content |-> GobDecodeRecord(content[i])]

\* RDB.Save into directory dir (file name -> content) at time t.
RdbSave(dir, records, t) == MapPut(dir, DumpName(t), GobEncode(records))

\* The candidates of LoadLatest: the directory's dump-*.rdb files.
Candidates(dir) == { n \in DOMAIN dir : HasPrefix(n, DumpPrefix) /\ HasSuffix(n, RdbSuffix) }

\* sort.Strings(candidates); candidates[len(candidates)-1]
Latest(names) == CHOOSE n \in names : \A o \in names : o = n \/ StrLess(o, n)

\* The configured rdb.file_path, "dump.rdb": LoadLatest falls back to it.
RdbPath == << 100, 117, 109, 112 >> \o RdbSuffix

\* RDB.LoadLatest: the records of the latest snapshot, none without a file.
LoadLatest(dir) ==
    LET named == Candidates(dir)
        cands == IF named = {} /\ RdbPath \in DOMAIN dir THEN {RdbPath} ELSE named
    IN  IF cands = {} THEN << >> ELSE GobDecode(dir[Latest(cands)])


(***************************************************************************)
(* State of the Engine generation.                                         *)
(***************************************************************************)
VARIABLES
    now,          \* time.Now().Unix() (time.Now().UnixMilli() in SpecMap)
    phase,        \* "down": no process; "up": kvd is running
    cfg,          \* [aof, rdb]: cfg.AOF.Enabled, cfg.RDB.Enabled of the run
    restoredFrom, \* what main restored the store from: "none", "aof", "rdb"
    shards,       \* Engine.shards[i].m
    shardMu,      \* Engine.shards[i].mu: the process holding the writer lock
    memUsage,     \* Engine.memUsage
    ttlq,         \* Engine.ttlq
    closed,       \* Engine.closed
    stopCh,       \* Engine.stopCh is closed
    aofExists,    \* the file at AOF.path exists
    aofDisk,      \* the bytes of the file at AOF.path
    aofOpen,      \* AOF.file # nil
    rewriting,    \* AOF.rewriting
    incBuf,       \* AOF.incBuf
    tmpDisk,      \* the bytes of AOF.path + ".rewrite.tmp"
    rdbDir,       \* the snapshot directory: file name -> gob content
    stats,        \* Service.stats
    changeTimes,  \* Service.changeTimes
    bgStop,       \* Service.bgStop is closed
    pc,           \* where each goroutine stands
    loc,          \* the local variables of each goroutine
    opsStarted,   \* client write operations started so far
    snapsStarted, \* client snapshot operations started so far
    tampered,     \* the log file was damaged from outside while kvd was down
    found,        \* history: what main found on disk when it started
    fullLog,      \* history: every line written to the log since the last start
    lastSaved,    \* history: the store as it was when the latest snapshot began
    cmItems,      \* ConcurrentMap.shards[i].items
    cmMem,        \* ConcurrentMap.shards[i].mem
    svcMemUsage,  \* Service.memUsage of the Service over ConcurrentMap
    requests,     \* its Service.requests
    hits,         \* its Service.hits
    misses,       \* its Service.misses
    tmHeap,       \* TTLManager.heap
    tmStopped,    \* TTLManager.stopped
    ret,          \* what the latest call of a client returned
    tickC,        \* the ticker of Service.background holds a tick not yet read
    unsaved,      \* history: the times of the changes recorded since a save was last triggered
    lastWrite     \* history: per key, the entry of the latest set no delete by a client followed

engineVars == << shards, shardMu, memUsage, ttlq, closed, stopCh >>
aofVars == << aofExists, aofDisk, aofOpen, rewriting, incBuf, tmpDisk >>
svcVars == << stats, changeTimes, bgStop >>
procVars == << pc, loc, opsStarted, snapsStarted >>
runVars == << phase, cfg, restoredFrom, tampered, found >>
histVars == << fullLog, lastSaved, lastWrite >>
mapVars == << cmItems, cmMem, svcMemUsage, requests, hits, misses, tmHeap, tmStopped >>
auxVars == << ret, tickC, unsaved >>

Clients == {"c1", "c2"}
Procs == Clients \cup {"bg", "ttl", "closer"}

Keys == {KeyA, KeyB}
Values == {ValShort, ValLong}
TTLs == {0, 1}

\* `pre` is history: the store as it was when the goroutine's snapshot began;
\* so is `stale`: the key of a read had an expired entry when the call began.
\* and so is `seen`: the entries the key of a read has had since the call
\* began, with `t` the second it began in. `calls` and `held` are the mutex
\* calls of the operation and the calls by which it holds a mutex (SpecLock).
\* `fd` is the file the descriptor RDB.Save opened refers to: "tmp", the file
\* under the tmp name; "full", that file after another Save renamed it;
\* "gone", that file once a later rename replaced it.
NoLocals == [op |-> "", key |-> << >>, value |-> << >>, expiresAt |-> 0, delta |-> 0,
             t |-> 0, shard |-> 0, snap |-> << >>, pre |-> << >>, reqs |-> << >>,
             ok |-> FALSE, stale |-> FALSE, calls |-> << >>, held |-> {}, seen |-> {},
             fd |-> ""]

\* The whole store as one map, and the entries of a map not expired at t.
StoreMap(sh) ==
    [k \in UNION { DOMAIN sh[i] : i \in Shards } |-> sh[shardIndex(k)][k]]

Live(m, t) == [k \in { x \in DOMAIN m : ~isExpired(m[x].ExpiresAt, t) } |-> m[k]]

ZeroStats == [Hits |-> 0, Misses |-> 0, ReqSet |-> 0, ReqGet |-> 0,
              ReqDel |-> 0, ReqExist |-> 0, ReqTTL |-> 0]

EmptyShards == [i \in Shards |-> EmptyMap]

\* What a call returned: its operation, the code of its error (CodeOK for nil),
\* and for the reads the value, the remaining TTL in seconds and the flag.
\* `shared`: the value returned is the very buffer the map keeps for the key.
NoRet == [op |-> "", key |-> << >>, code |-> CodeOK, value |-> << >>, ttl |-> 0, ok |-> FALSE,
          shared |-> FALSE]
Result(op, key, code) == [NoRet EXCEPT !.op = op, !.key = key, !.code = code]

\* Service.requests of the Service over ConcurrentMap, a count per operation
\* (a key the Go map lacks reads as 0).
ZeroRequests == [set |-> 0, get |-> 0, del |-> 0]

\* NewEngine and NewService (of either Service): the memory of a process that
\* has just started.
FreshMemory ==
    /\ shards = EmptyShards
    /\ shardMu = [i \in Shards |-> NoProc]
    /\ memUsage = 0
    /\ ttlq = << >>
    /\ closed = FALSE
    /\ stopCh = FALSE
    /\ rewriting = FALSE
    /\ incBuf = << >>
    /\ stats = ZeroStats
    /\ changeTimes = << >>
    /\ bgStop = FALSE
    /\ pc = [p \in Procs |-> "idle"]
    /\ loc = [p \in Procs |-> NoLocals]
    /\ cmItems = EmptyShards
    /\ cmMem = [i \in Shards |-> 0]
    /\ svcMemUsage = 0
    /\ requests = ZeroRequests
    /\ hits = 0
    /\ misses = 0
    /\ tmHeap = << >>
    /\ tmStopped = FALSE
    /\ ret = [p \in Clients |-> NoRet]
    /\ tickC = FALSE
    /\ unsaved = << >>
    /\ lastWrite = EmptyMap

(***************************************************************************)
(* Service.Set, in the steps other goroutines can interleave with.         *)
(***************************************************************************)
Return(p) ==
    /\ pc' = [pc EXCEPT ![p] = "idle"]
    /\ loc' = [loc EXCEPT ![p] = NoLocals]

\* The call of client p returns r.
Reply(p, r) ==
    /\ Return(p)
    /\ ret' = [ret EXCEPT ![p] = r]

\* Engine.validate: the code of its error, CodeOK for nil (the keys of the
\* model are ASCII, which utf8.ValidString accepts).
validateCode(key, value) ==
    IF key = << >> THEN CodeInvalidRequest
    ELSE IF Len(key) > 256 THEN CodeKeyTooLong
    ELSE IF Len(value) > 1048576 THEN CodeValueTooLarge
    ELSE CodeOK

\* mapStorageErr of what SetWithExpiresAt returns before it locks the shard:
\* errors.New("storage closed") is no APIError and becomes CodeInternal.
SetEntryCode(key, value) ==
    IF closed THEN CodeInternal ELSE validateCode(key, value)

\* Set up to the closed check of SetWithExpiresAt: ReqSet.Add(1), expiresAt,
\* e.closed.Load(), validate.
Service_Set(p, key, value, ttl) ==
    /\ phase = "up" /\ pc[p] = "idle" /\ opsStarted < MaxOps
    /\ opsStarted' = opsStarted + 1
    /\ stats' = [stats EXCEPT !.ReqSet = @ + 1]
    /\ IF closed \/ ~validate(key, value)
       THEN Reply(p, Result("set", key, SetEntryCode(key, value)))
       ELSE /\ pc' = [pc EXCEPT ![p] = "setLock"]
            /\ loc' = [loc EXCEPT ![p] = [NoLocals EXCEPT !.op = "set", !.key = key,
                          !.value = value, !.expiresAt = IF ttl > 0 THEN now + ttl ELSE 0]]
            /\ UNCHANGED ret
    /\ UNCHANGED << now, mapVars, runVars, tickC, unsaved, histVars, engineVars, aofVars, rdbDir,
                    changeTimes, bgStop, snapsStarted >>

\* An admission that adds delta to the counter before it checks it.
Engine_SetLockCharging(p) ==
    LET i == shardIndex(loc[p].key)
        delta == SetDelta(shards[i], loc[p].key, loc[p].value)
    IN  /\ pc[p] = "setLock" /\ shardMu[i] = NoProc
        /\ memUsage' = memUsage + delta
        /\ IF MemoryFull(memUsage, delta)
           THEN Reply(p, Result("set", loc[p].key, CodeMemoryFull)) /\ UNCHANGED shardMu
           ELSE /\ shardMu' = [shardMu EXCEPT ![i] = p]
                /\ pc' = [pc EXCEPT ![p] = "setStore"]
                /\ loc' = [loc EXCEPT ![p].delta = 0]
                /\ UNCHANGED ret
        /\ UNCHANGED << now, mapVars, runVars, tickC, unsaved, histVars, shards, ttlq, closed,
                        stopCh, aofVars, rdbDir, svcVars, opsStarted, snapsStarted >>

\* SetWithExpiresAt: s.mu.Lock(), delta, and the admission check on
\* e.memUsage.Load(); on MemoryFull the lock is released and Set returns.
Engine_SetLock(p) ==
    LET i == shardIndex(loc[p].key)
        delta == SetDelta(shards[i], loc[p].key, loc[p].value)
    IN  /\ pc[p] = "setLock" /\ shardMu[i] = NoProc
        /\ IF MemoryFull(memUsage, delta)
           THEN Reply(p, Result("set", loc[p].key, CodeMemoryFull)) /\ UNCHANGED shardMu
           ELSE /\ shardMu' = [shardMu EXCEPT ![i] = p]
                /\ pc' = [pc EXCEPT ![p] = "setStore"]
                /\ loc' = [loc EXCEPT ![p].delta = delta]
                /\ UNCHANGED ret
        /\ UNCHANGED << now, mapVars, runVars, tickC, unsaved, histVars, shards, memUsage, ttlq, closed,
                        stopCh, aofVars, rdbDir, svcVars, opsStarted, snapsStarted >>

\* Where Set goes on after SetWithExpiresAt or Delete returned nil.
AfterStore == IF cfg.aof THEN "append" ELSE "change"

\* The locals after entry e was stored under key: the reads of that key
\* under way have seen one more entry.
SeenBy(l, key, e) ==
    [q \in DOMAIN l |->
        IF l[q].op \in {"get", "exists", "ttl"} /\ l[q].key = key
        THEN [l[q] EXCEPT !.seen = @ \cup {e}] ELSE l[q]]

\* SetWithExpiresAt: s.m[key] = Entry{...}; e.memUsage.Add(delta); without a
\* TTL the deferred Unlock follows at once.
Engine_SetStore(p) ==
    LET i == shardIndex(loc[p].key)
    IN  /\ pc[p] = "setStore"
        /\ shards' = [shards EXCEPT ![i] =
                        MapPut(@, loc[p].key, Entry(loc[p].value, loc[p].expiresAt))]
        /\ memUsage' = memUsage + loc[p].delta
        /\ lastWrite' = MapPut(lastWrite, loc[p].key, Entry(loc[p].value, loc[p].expiresAt))
        /\ IF loc[p].expiresAt > 0
           THEN pc' = [pc EXCEPT ![p] = "setPush"] /\ UNCHANGED shardMu
           ELSE /\ pc' = [pc EXCEPT ![p] = AfterStore]
                /\ shardMu' = [shardMu EXCEPT ![i] = NoProc]
        /\ loc' = SeenBy(loc, loc[p].key, Entry(loc[p].value, loc[p].expiresAt))
        /\ UNCHANGED << now, mapVars, runVars, auxVars, fullLog, lastSaved, ttlq, closed, stopCh, aofVars, rdbDir, svcVars,
                        opsStarted, snapsStarted >>

\* SetWithExpiresAt: heap.Push under ttlqMu, then the deferred Unlock.
Engine_SetPush(p) ==
    LET i == shardIndex(loc[p].key)
    IN  /\ pc[p] = "setPush"
        /\ ttlq' = HeapPush(ttlq, [key |-> loc[p].key, expiresAt |-> loc[p].expiresAt])
        /\ shardMu' = [shardMu EXCEPT ![i] = NoProc]
        /\ pc' = [pc EXCEPT ![p] = AfterStore]
        /\ UNCHANGED << now, mapVars, runVars, auxVars, histVars, shards, memUsage, closed, stopCh, aofVars, rdbDir,
                        svcVars, loc, opsStarted, snapsStarted >>

\* The line Set or Delete appends: a SET line for a value, a DEL line without.
OpLine(l) ==
    IF l.op = "del" THEN DelLine(l.key) ELSE SetLine(l.key, l.value, l.expiresAt)

\* AOF.append under a.mu: nothing without a file, else the write, and a copy
\* into incBuf while a rewrite runs.
AOF_append(p) ==
    /\ pc[p] = "append"
    /\ IF ~aofOpen
       THEN UNCHANGED << aofDisk, incBuf, fullLog >>
       ELSE /\ aofDisk' = aofDisk \o OpLine(loc[p])
            /\ incBuf' = IF rewriting THEN incBuf \o OpLine(loc[p]) ELSE incBuf
            /\ fullLog' = fullLog \o OpLine(loc[p])
    /\ pc' = [pc EXCEPT ![p] = "change"]
    /\ UNCHANGED << now, mapVars, runVars, auxVars, lastSaved, lastWrite, engineVars, aofExists, aofOpen, rewriting, tmpDisk,
                    rdbDir, svcVars, loc, opsStarted, snapsStarted >>

\* A failed append that is passed over in silence.
AppendIgnored(l) == Result(l.op, l.key, CodeOK)

\* What Set and Delete return when AppendSet or AppendDel returned an error.
AppendFailed(l) == Result(l.op, l.key, CodeInternal)

\* AOF.append when a.file.Write fails: the error goes back before incBuf is
\* written, with nothing or a part of the line in the file; Set and Delete
\* return at once.
AOF_appendFail(p) ==
    /\ pc[p] = "append" /\ aofOpen
    /\ \E n \in {0, Len(OpLine(loc[p])) - 1} :
          /\ aofDisk' = aofDisk \o SubSeq(OpLine(loc[p]), 1, n)
          /\ fullLog' = fullLog \o SubSeq(OpLine(loc[p]), 1, n)
    /\ Reply(p, AppendFailed(loc[p]))
    /\ UNCHANGED << now, mapVars, runVars, tickC, unsaved, lastSaved, lastWrite, engineVars, aofExists, aofOpen,
                    rewriting, incBuf, tmpDisk, rdbDir, svcVars, opsStarted, snapsStarted >>

\* Service.recordChange, after which Set and Delete return nil.
Service_recordChange(p) ==
    /\ pc[p] = "change"
    /\ changeTimes' = Append(changeTimes, now)
    /\ unsaved' = Append(unsaved, now)
    /\ Reply(p, Result(loc[p].op, loc[p].key, CodeOK))
    /\ UNCHANGED << now, mapVars, runVars, tickC, histVars, engineVars, aofVars, rdbDir, stats, bgStop,
                    opsStarted, snapsStarted >>

\* Service.Delete up to the return of Engine.Delete: ReqDel.Add(1), then under
\* the shard lock the entry is removed and its size taken off memUsage.
Service_Delete(p, key) ==
    LET i == shardIndex(key)
    IN  /\ phase = "up" /\ pc[p] = "idle" /\ opsStarted < MaxOps
        /\ shardMu[i] = NoProc
        /\ opsStarted' = opsStarted + 1
        /\ stats' = [stats EXCEPT !.ReqDel = @ + 1]
        /\ IF key \in DOMAIN shards[i]
           THEN /\ shards' = [shards EXCEPT ![i] = MapDel(@, key)]
                /\ memUsage' = memUsage - estimateEntrySize(key, shards[i][key].Value)
           ELSE UNCHANGED << shards, memUsage >>
        /\ pc' = [pc EXCEPT ![p] = AfterStore]
        /\ loc' = [loc EXCEPT ![p] = [NoLocals EXCEPT !.op = "del", !.key = key,
                      !.ok = key \in DOMAIN shards[i]]]
        /\ lastWrite' = MapDel(lastWrite, key)
        /\ UNCHANGED << now, mapVars, runVars, auxVars, fullLog, lastSaved, shardMu, ttlq, closed, stopCh, aofVars, rdbDir,
                        changeTimes, bgStop, snapsStarted >>


(***************************************************************************)
(* Engine.Snapshot, shard by shard under the shard's read lock, and the    *)
(* snapshot operation of the Service.                                      *)
(***************************************************************************)
\* The sequences that list each element of S once: Go ranges over a map in
\* no specified order.
Orderings(S) ==
    { o \in [1 .. Cardinality(S) -> S] : \A i, j \in DOMAIN o : o[i] = o[j] => i = j }

\* The keys of m that Snapshot keeps at time t.
SnapshotKeys(m, t) == { k \in DOMAIN m : ~(m[k].ExpiresAt > 0 /\ m[k].ExpiresAt <= t) }

RecordsOf(m, order) ==
    [n \in DOMAIN order |-> PersistRecord(order[n], m[order[n]].Value, m[order[n]].ExpiresAt)]

\* One shard of Engine.Snapshot by goroutine p, which goes on at `next` after
\* the last shard.
Engine_Snapshot(p, next) ==
    LET i == loc[p].shard
    IN  /\ pc[p] = "snap" /\ shardMu[i] = NoProc
        /\ \E order \in Orderings(SnapshotKeys(shards[i], loc[p].t)) :
              loc' = [loc EXCEPT ![p].snap = @ \o RecordsOf(shards[i], order),
                                 ![p].shard = IF i + 1 < ShardCount THEN i + 1 ELSE 0]
        /\ pc' = [pc EXCEPT ![p] = IF i + 1 < ShardCount THEN "snap" ELSE next]
        /\ UNCHANGED << now, mapVars, runVars, auxVars, histVars, engineVars, aofVars, rdbDir, svcVars, opsStarted,
                        snapsStarted >>

\* Service.Snapshot: an error without RDB, else the snapshot is taken.
Service_Snapshot(p) ==
    /\ phase = "up" /\ pc[p] = "idle" /\ snapsStarted < MaxSnaps
    /\ snapsStarted' = snapsStarted + 1
    /\ IF ~cfg.rdb
       THEN UNCHANGED << pc, loc >>
       ELSE /\ pc' = [pc EXCEPT ![p] = "snap"]
            /\ loc' = [loc EXCEPT ![p] = [NoLocals EXCEPT !.op = "snapshot", !.t = now,
                                                                !.pre = StoreMap(shards)]]
    /\ UNCHANGED << now, mapVars, runVars, auxVars, histVars, engineVars, aofVars, rdbDir, svcVars, opsStarted >>

\* RDB.Save of the snapshot taken: dump-<now>.rdb is written and renamed.
RDB_Save(p) ==
    /\ pc[p] = "save"
    /\ rdbDir' = RdbSave(rdbDir, loc[p].snap, now)
    /\ lastSaved' = [op |-> loc[p].op, map |-> loc[p].pre]
    /\ IF loc[p].op = "close"
       THEN pc' = [pc EXCEPT ![p] = "aofClose"] /\ loc' = [loc EXCEPT ![p] = NoLocals]
       ELSE IF loc[p].op = "auto"
       THEN pc' = [pc EXCEPT ![p] = "reset"] /\ loc' = [loc EXCEPT ![p] = NoLocals]
       ELSE Return(p)
    /\ UNCHANGED << now, mapVars, runVars, auxVars, fullLog, lastWrite, engineVars, aofVars, svcVars, opsStarted,
                    snapsStarted >>

(***************************************************************************)
(* Engine.runTTLWorker: evictExpired on every tick, until stopCh closes.   *)
(***************************************************************************)
\* A tick of the worker: evictExpired reads the clock once.
Engine_evictExpired ==
    /\ phase = "up" /\ pc["ttl"] = "idle"
    /\ ttlq # << >> /\ ttlq[1].expiresAt <= now
    /\ pc' = [pc EXCEPT !["ttl"] = "pop"]
    /\ loc' = [loc EXCEPT !["ttl"].t = now]
    /\ UNCHANGED << now, mapVars, runVars, auxVars, histVars, engineVars, aofVars, rdbDir, svcVars, opsStarted,
                    snapsStarted >>

\* evictExpired's loop under ttlqMu: return on an empty heap or a top in the
\* future, else heap.Pop.
Engine_evictPop ==
    /\ pc["ttl"] = "pop"
    /\ IF ttlq = << >> \/ ttlq[1].expiresAt > loc["ttl"].t
       THEN Return("ttl") /\ UNCHANGED ttlq
       ELSE /\ ttlq' = HeapPopRest(ttlq)
            /\ pc' = [pc EXCEPT !["ttl"] = "del"]
            /\ loc' = [loc EXCEPT !["ttl"].key = ttlq[1].key,
                                  !["ttl"].expiresAt = ttlq[1].expiresAt]
    /\ UNCHANGED << now, mapVars, runVars, auxVars, histVars, shards, shardMu, memUsage, closed, stopCh, aofVars,
                    rdbDir, svcVars, opsStarted, snapsStarted >>

\* Engine.deleteIfExpired(key, expiresAt) under the shard lock.
deleteIfExpired(key, expiresAt) ==
    LET i == shardIndex(key)
    IN  /\ shardMu[i] = NoProc
        /\ IF ShouldDeleteExpired(shards[i], key, expiresAt, now)
           THEN /\ shards' = [shards EXCEPT ![i] = MapDel(@, key)]
                /\ memUsage' = memUsage - estimateEntrySize(key, shards[i][key].Value)
           ELSE UNCHANGED << shards, memUsage >>

Engine_evictDelete ==
    /\ pc["ttl"] = "del"
    /\ deleteIfExpired(loc["ttl"].key, loc["ttl"].expiresAt)
    /\ pc' = [pc EXCEPT !["ttl"] = "pop"]
    /\ loc' = [loc EXCEPT !["ttl"].key = << >>, !["ttl"].expiresAt = 0]
    /\ UNCHANGED << now, mapVars, runVars, auxVars, histVars, shardMu, ttlq, closed, stopCh, aofVars, rdbDir,
                    svcVars, opsStarted, snapsStarted >>

\* The worker leaves its loop once stopCh is closed, and closes `stopped`.
Engine_ttlWorkerStop ==
    /\ pc["ttl"] = "idle" /\ stopCh
    /\ pc' = [pc EXCEPT !["ttl"] = "done"]
    /\ UNCHANGED << now, mapVars, runVars, auxVars, histVars, engineVars, aofVars, rdbDir, svcVars, loc, opsStarted,
                    snapsStarted >>


(***************************************************************************)
(* Service.Get, Service.Exists and Service.TTL: the request counter, the   *)
(* lookup under the shard's read lock, the lazy deletion of an entry found *)
(* expired, and for Get the second lookup of Engine.TTL.                   *)
(***************************************************************************)
ReadOps == {"get", "exists", "ttl"}

ReqCounter(op) == IF op = "get" THEN "ReqGet" ELSE IF op = "exists" THEN "ReqExist" ELSE "ReqTTL"

\* s.stats.ReqGet.Add(1), ReqExist.Add(1) or ReqTTL.Add(1).
Service_Read(p, op, key) ==
    LET i == shardIndex(key)
    IN  /\ phase = "up" /\ pc[p] = "idle" /\ opsStarted < MaxCalls
        /\ opsStarted' = opsStarted + 1
        /\ stats' = [stats EXCEPT ![ReqCounter(op)] = @ + 1]
        /\ pc' = [pc EXCEPT ![p] = "read"]
        /\ loc' = [loc EXCEPT ![p] = [NoLocals EXCEPT !.op = op, !.key = key, !.t = now,
                      !.seen = IF key \in DOMAIN shards[i] THEN {shards[i][key]} ELSE {},
                      !.stale = /\ key \in DOMAIN shards[i]
                                /\ shards[i][key].ExpiresAt > 0
                                /\ shards[i][key].ExpiresAt <= now]]
        /\ UNCHANGED << now, mapVars, runVars, auxVars, histVars, engineVars, aofVars, rdbDir,
                        changeTimes, bgStop, snapsStarted >>

\* What the key is not found gives: Misses.Add(1), and CodeKeyNotFound from
\* Get and TTL, false from Exists.
Miss(p) ==
    /\ stats' = [stats EXCEPT !.Misses = @ + 1]
    /\ Reply(p, Result(loc[p].op, loc[p].key,
                       IF loc[p].op = "exists" THEN CodeOK ELSE CodeKeyNotFound))

\* Hits.Add(1) and the result: the value of Get, true of Exists, and the
\* seconds of Get and TTL, -1 for a negative duration.
Hit(p, value, ttl) ==
    /\ stats' = [stats EXCEPT !.Hits = @ + 1]
    /\ Reply(p, [op |-> loc[p].op, key |-> loc[p].key, code |-> CodeOK,
                 value |-> IF loc[p].op = "get" THEN value ELSE << >>,
                 ttl |-> IF loc[p].op = "exists" THEN 0 ELSE ttl,
                 ok |-> loc[p].op = "exists", shared |-> FALSE])

\* The seconds Engine.TTL can return for an entry that expires at expiresAt,
\* read in the second t: -1 without expiry, else time.Until rounded to the
\* second, which the fraction of the second decides.
Remaining(expiresAt, t) ==
    IF expiresAt = 0 THEN {-1}
    ELSE { IF r < 0 THEN 0 ELSE r : r \in {expiresAt - t - 1, expiresAt - t} }

\* The lookup of Engine.Get (Get, Exists) or Engine.TTL (TTL): s.m[key] under
\* RLock, then isExpired.
Engine_Read(p) ==
    LET key == loc[p].key
        m == shards[shardIndex(key)]
    IN  /\ pc[p] = "read" /\ shardMu[shardIndex(key)] = NoProc
        /\ IF key \notin DOMAIN m
           THEN Miss(p)
           ELSE IF isExpired(m[key].ExpiresAt, now)
           THEN /\ pc' = [pc EXCEPT ![p] = "readDel"]
                /\ loc' = [loc EXCEPT ![p].expiresAt = m[key].ExpiresAt]
                /\ UNCHANGED << stats, ret >>
           ELSE IF loc[p].op = "get"
           THEN /\ pc' = [pc EXCEPT ![p] = "getTtl"]
                /\ loc' = [loc EXCEPT ![p].value = m[key].Value]
                /\ UNCHANGED << stats, ret >>
           ELSE \E r \in Remaining(m[key].ExpiresAt, now) : Hit(p, << >>, r)
        /\ UNCHANGED << now, mapVars, runVars, tickC, unsaved, histVars, engineVars, aofVars, rdbDir,
                        changeTimes, bgStop, opsStarted, snapsStarted >>

\* deleteIfExpired of the entry the lookup found expired; Get, Exists and TTL
\* then report the key as not found.
Engine_ReadDelete(p) ==
    /\ pc[p] = "readDel"
    /\ deleteIfExpired(loc[p].key, loc[p].expiresAt)
    /\ Miss(p)
    /\ UNCHANGED << now, mapVars, runVars, tickC, unsaved, histVars, shardMu, ttlq, closed, stopCh,
                    aofVars, rdbDir, changeTimes, bgStop, opsStarted, snapsStarted >>

\* Get after Engine.Get returned the value: ttl, _ := s.store.TTL(key), a
\* second lookup, whose failure leaves ttl at 0.
Engine_GetTTL(p) ==
    LET key == loc[p].key
        m == shards[shardIndex(key)]
    IN  /\ pc[p] = "getTtl" /\ shardMu[shardIndex(key)] = NoProc
        /\ IF key \notin DOMAIN m
           THEN Hit(p, loc[p].value, 0)
           ELSE IF isExpired(m[key].ExpiresAt, now)
           THEN /\ pc' = [pc EXCEPT ![p] = "getTtlDel"]
                /\ loc' = [loc EXCEPT ![p].expiresAt = m[key].ExpiresAt]
                /\ UNCHANGED << stats, ret >>
           ELSE \E r \in Remaining(m[key].ExpiresAt, now) : Hit(p, loc[p].value, r)
        /\ UNCHANGED << now, mapVars, runVars, tickC, unsaved, histVars, engineVars, aofVars, rdbDir,
                        changeTimes, bgStop, opsStarted, snapsStarted >>

\* deleteIfExpired within that second lookup; Get still returns the value.
Engine_GetTTLDelete(p) ==
    /\ pc[p] = "getTtlDel"
    /\ deleteIfExpired(loc[p].key, loc[p].expiresAt)
    /\ Hit(p, loc[p].value, 0)
    /\ UNCHANGED << now, mapVars, runVars, tickC, unsaved, histVars, shardMu, ttlq, closed, stopCh,
                    aofVars, rdbDir, changeTimes, bgStop, opsStarted, snapsStarted >>


(***************************************************************************)
(* Service.background: the rewrite ticker. With no save rules configured   *)
(* the snapshot ticker's maybeAutoSnapshot returns at once.                *)
(***************************************************************************)
\* NeedsRewrite without the comparison of the file size with the threshold.
NeedsRewriteAnySize ==
    ~(~aofOpen \/ RewriteThreshold <= 0 \/ rewriting)

\* AOF.NeedsRewrite
NeedsRewrite ==
    ~(~aofOpen \/ RewriteThreshold <= 0 \/ rewriting) /\ Len(aofDisk) >= RewriteThreshold

\* case <-rewriteTicker.C, up to the call of s.store.Snapshot().
Service_background ==
    /\ phase = "up" /\ pc["bg"] = "idle"
    /\ cfg.aof /\ NeedsRewrite
    /\ pc' = [pc EXCEPT !["bg"] = "snap"]
    /\ loc' = [loc EXCEPT !["bg"] = [NoLocals EXCEPT !.op = "rewrite", !.t = now]]
    /\ UNCHANGED << now, mapVars, runVars, auxVars, histVars, engineVars, aofVars, rdbDir, svcVars,
                    opsStarted, snapsStarted >>

\* AOF.Rewrite, first critical section: rewriting = true, incBuf.Reset().
AOF_RewriteBegin ==
    /\ pc["bg"] = "rwBegin"
    /\ IF ~aofOpen \/ rewriting
       THEN Return("bg") /\ UNCHANGED << rewriting, incBuf >>
       ELSE /\ rewriting' = TRUE
            /\ incBuf' = << >>
            /\ pc' = [pc EXCEPT !["bg"] = "rwCopy"]
            /\ UNCHANGED loc
    /\ UNCHANGED << now, mapVars, runVars, auxVars, histVars, engineVars, aofExists, aofDisk, aofOpen,
                    tmpDisk, rdbDir, svcVars, opsStarted, snapsStarted >>

\* The lines Rewrite writes for the snapshot.
RECURSIVE SnapshotLines(_)
SnapshotLines(records) ==
    IF records = << >> THEN << >>
    ELSE SetLine(Head(records).Key, Head(records).Value, Head(records).ExpiresAt)
           \o SnapshotLines(Tail(records))

\* AOF.Rewrite: the snapshot goes to the truncated tmp file, then, in the
\* second critical section, the bytes of incBuf.
AOF_RewriteCopy ==
    /\ pc["bg"] = "rwCopy"
    /\ tmpDisk' = SnapshotLines(loc["bg"].snap) \o incBuf
    /\ pc' = [pc EXCEPT !["bg"] = "rwRename"]
    /\ UNCHANGED << now, mapVars, runVars, auxVars, histVars, engineVars, aofExists, aofDisk, aofOpen,
                    rewriting, incBuf, rdbDir, svcVars, loc, opsStarted, snapsStarted >>

\* AOF.Rewrite, third critical section: the tmp file is renamed over the log,
\* the log reopened for appending, rewriting = false.
AOF_RewriteRename ==
    /\ pc["bg"] = "rwRename"
    /\ aofDisk' = tmpDisk
    /\ tmpDisk' = << >>
    /\ aofOpen' = TRUE
    /\ rewriting' = FALSE
    /\ Return("bg")
    /\ UNCHANGED << now, mapVars, runVars, auxVars, histVars, engineVars, aofExists, incBuf, rdbDir,
                    svcVars, opsStarted, snapsStarted >>

\* AOF.Rewrite when opening, writing, syncing or closing the tmp file fails:
\* finishRewrite sets rewriting = false and the error is returned, with the
\* tmp file left as far as it was written and incBuf as it is.
AOF_RewriteFail ==
    /\ pc["bg"] = "rwCopy"
    /\ \E n \in {0, Len(SnapshotLines(loc["bg"].snap) \o incBuf)} :
          tmpDisk' = SubSeq(SnapshotLines(loc["bg"].snap) \o incBuf, 1, n)
    /\ rewriting' = FALSE
    /\ Return("bg")
    /\ UNCHANGED << now, mapVars, runVars, auxVars, histVars, engineVars, aofExists, aofDisk, aofOpen,
                    incBuf, rdbDir, svcVars, opsStarted, snapsStarted >>

\* AOF.Rewrite, third critical section, when os.Rename fails:
\* rewriting = false and the error is returned.
AOF_RewriteRenameFail ==
    /\ pc["bg"] = "rwRename"
    /\ rewriting' = FALSE
    /\ Return("bg")
    /\ UNCHANGED << now, mapVars, runVars, auxVars, histVars, engineVars, aofExists, aofDisk, aofOpen,
                    incBuf, tmpDisk, rdbDir, svcVars, opsStarted, snapsStarted >>

\* AOF.Rewrite, third critical section, when the rename is done and
\* os.OpenFile of the log fails: a.file is the nil file OpenFile returned
\* with its error, rewriting = false.
AOF_RewriteReopenFail ==
    /\ pc["bg"] = "rwRename"
    /\ aofDisk' = tmpDisk
    /\ tmpDisk' = << >>
    /\ aofOpen' = FALSE
    /\ rewriting' = FALSE
    /\ Return("bg")
    /\ UNCHANGED << now, mapVars, runVars, auxVars, histVars, engineVars, aofExists, incBuf, rdbDir,
                    svcVars, opsStarted, snapsStarted >>

\* case <-s.bgStop: the goroutine returns and closes bgDone.
Service_backgroundStop ==
    /\ pc["bg"] = "idle" /\ bgStop
    /\ pc' = [pc EXCEPT !["bg"] = "done"]
    /\ UNCHANGED << now, mapVars, runVars, auxVars, histVars, engineVars, aofVars, rdbDir, svcVars, loc,
                    opsStarted, snapsStarted >>

(***************************************************************************)
(* Service.Close, called by main on SIGINT or SIGTERM. http.Server's       *)
(* Shutdown waits for running handlers only until ShutdownTimeout, so      *)
(* handlers may still run.                                                 *)
(***************************************************************************)
\* close(s.bgStop)
Service_Close ==
    /\ phase = "up" /\ pc["closer"] = "idle"
    /\ bgStop' = TRUE
    /\ pc' = [pc EXCEPT !["closer"] = "waitBg"]
    /\ UNCHANGED << now, mapVars, runVars, auxVars, histVars, engineVars, aofVars, rdbDir, stats,
                    changeTimes, loc, opsStarted, snapsStarted >>

\* <-s.bgDone, then the snapshot on shutdown if RDB is enabled.
Service_CloseWaitBg ==
    /\ pc["closer"] = "waitBg" /\ pc["bg"] = "done"
    /\ IF cfg.rdb
       THEN /\ pc' = [pc EXCEPT !["closer"] = "snap"]
            /\ loc' = [loc EXCEPT !["closer"] = [NoLocals EXCEPT !.op = "close", !.t = now,
                                                     !.pre = StoreMap(shards)]]
       ELSE pc' = [pc EXCEPT !["closer"] = "aofClose"] /\ UNCHANGED loc
    /\ UNCHANGED << now, mapVars, runVars, auxVars, histVars, engineVars, aofVars, rdbDir, svcVars,
                    opsStarted, snapsStarted >>

\* s.aof.Sync(); s.aof.Close(): a.file = nil.
AOF_Close ==
    /\ pc["closer"] = "aofClose"
    /\ aofOpen' = FALSE
    /\ pc' = [pc EXCEPT !["closer"] = "storeClose"]
    /\ UNCHANGED << now, mapVars, runVars, auxVars, histVars, engineVars, aofExists, aofDisk, rewriting,
                    incBuf, tmpDisk, rdbDir, svcVars, loc, opsStarted, snapsStarted >>

\* Service.Close when s.aof.Sync() returns an error: Close returns it at once,
\* with the log file left open and the store not closed.
AOF_SyncFail ==
    /\ pc["closer"] = "aofClose" /\ cfg.aof /\ aofOpen
    /\ pc' = [pc EXCEPT !["closer"] = "done"]
    /\ UNCHANGED << now, mapVars, runVars, auxVars, histVars, engineVars, aofVars, rdbDir, svcVars,
                    loc, opsStarted, snapsStarted >>

\* Service.Close when s.aof.Close() returns an error: AOF.Close has set
\* a.file = nil, and Close returns the error with the store not closed.
AOF_CloseFail ==
    /\ pc["closer"] = "aofClose" /\ cfg.aof /\ aofOpen
    /\ aofOpen' = FALSE
    /\ pc' = [pc EXCEPT !["closer"] = "done"]
    /\ UNCHANGED << now, mapVars, runVars, auxVars, histVars, engineVars, aofExists, aofDisk, rewriting,
                    incBuf, tmpDisk, rdbDir, svcVars, loc, opsStarted, snapsStarted >>

\* Engine.Close: closed.Store(true); close(stopCh).
Engine_Close ==
    /\ pc["closer"] = "storeClose"
    /\ closed' = TRUE
    /\ stopCh' = TRUE
    /\ pc' = [pc EXCEPT !["closer"] = "waitTtl"]
    /\ UNCHANGED << now, mapVars, runVars, auxVars, histVars, shards, shardMu, memUsage, ttlq, aofVars,
                    rdbDir, svcVars, loc, opsStarted, snapsStarted >>

\* <-e.stopped: Close returns.
Engine_CloseWait ==
    /\ pc["closer"] = "waitTtl" /\ pc["ttl"] = "done"
    /\ pc' = [pc EXCEPT !["closer"] = "done"]
    /\ UNCHANGED << now, mapVars, runVars, auxVars, histVars, engineVars, aofVars, rdbDir, svcVars, loc,
                    opsStarted, snapsStarted >>

\* A second passes.
Tick ==
    /\ now < Epoch + MaxTime
    /\ now' = now + 1
    /\ UNCHANGED << mapVars, runVars, auxVars, histVars, engineVars, aofVars, rdbDir, svcVars, procVars >>


(***************************************************************************)
(* main: the start of kvd, and the ways it ends.                           *)
(***************************************************************************)
Configs == [aof : BOOLEAN, rdb : BOOLEAN]

\* A main that restores from the snapshot whenever snapshots are enabled.
LoadsSnapshotWhenEnabled(c) == c.rdb

\* main restores from the snapshot only `if aof == nil`.
LoadsSnapshot(c) == c.rdb /\ ~c.aof

FreshEngine == [ok |-> TRUE, shards |-> EmptyShards, memUsage |-> 0, ttlq |-> << >>]

\* Engine.Restore at time t into e: expired records are skipped, the others
\* go through SetWithExpiresAt, whose first error ends the restore.
RECURSIVE Restore(_, _, _)
Restore(e, records, t) ==
    IF records = << >> \/ ~e.ok THEN e
    ELSE LET r == Head(records)
             i == shardIndex(r.Key)
             delta == SetDelta(e.shards[i], r.Key, r.Value)
         IN  IF isExpired(r.ExpiresAt, t) THEN Restore(e, Tail(records), t)
             ELSE IF ~validate(r.Key, r.Value) \/ MemoryFull(e.memUsage, delta)
                  THEN [e EXCEPT !.ok = FALSE]
                  ELSE Restore([ok |-> TRUE,
                                shards |-> [e.shards EXCEPT ![i] =
                                              MapPut(@, r.Key, Entry(r.Value, r.ExpiresAt))],
                                memUsage |-> e.memUsage + delta,
                                ttlq |-> IF r.ExpiresAt > 0
                                         THEN HeapPush(e.ttlq, [key |-> r.Key,
                                                                expiresAt |-> r.ExpiresAt])
                                         ELSE e.ttlq],
                               Tail(records), t)

\* NewEngine, NewService and the goroutines they start, with engine state e.
StartMemory(e) ==
    /\ shards' = e.shards
    /\ memUsage' = e.memUsage
    /\ ttlq' = e.ttlq
    /\ shardMu' = [i \in Shards |-> NoProc]
    /\ closed' = FALSE
    /\ stopCh' = FALSE
    /\ rewriting' = FALSE
    /\ incBuf' = << >>
    /\ stats' = ZeroStats
    /\ changeTimes' = << >>
    /\ bgStop' = FALSE
    /\ pc' = [p \in Procs |-> "idle"]
    /\ loc' = [p \in Procs |-> NoLocals]
    /\ ret' = [p \in Clients |-> NoRet]
    /\ tickC' = FALSE
    /\ unsaved' = << >>
    /\ lastWrite' = EmptyMap

\* main with configuration c, up to NewService: OpenAndReplay if AOF is
\* enabled, LoadLatest and Restore if the snapshot is to be loaded. An error
\* of either restore ends the process.
Start(c) ==
    /\ phase = "down"
    /\ LET parsed == parseAOF(aofDisk)
           cut == IF parsed.ok THEN aofDisk ELSE SubSeq(aofDisk, 1, parsed.offset)
           dump == LoadLatest(rdbDir)
       IN  \E order \in Orderings(DOMAIN parsed.kv) :
             LET records == [n \in DOMAIN order |-> parsed.kv[order[n]]]
                 e1 == IF c.aof THEN Restore(FreshEngine, records, now) ELSE FreshEngine
                 e2 == IF LoadsSnapshot(c) /\ Len(dump) > 0
                       THEN Restore(e1, dump, now) ELSE e1
             IN  /\ phase' = IF e2.ok THEN "up" ELSE "down"
                 /\ StartMemory(IF e2.ok THEN e2 ELSE FreshEngine)
                 /\ aofExists' = (aofExists \/ c.aof)
                 /\ aofDisk' = IF c.aof THEN cut ELSE aofDisk
                 /\ aofOpen' = (c.aof /\ e2.ok)
                 /\ restoredFrom' = IF c.aof THEN "aof"
                                    ELSE IF LoadsSnapshot(c) /\ Len(dump) > 0 THEN "rdb"
                                    ELSE "none"
    /\ cfg' = c
    /\ found' = [log |-> aofExists, snap |-> Candidates(rdbDir) # {}]
    /\ fullLog' = aofDisk'
    /\ UNCHANGED << mapVars, now, tampered, tmpDisk, rdbDir, lastSaved, opsStarted, snapsStarted >>

\* The end of a process: its memory is gone, the files stay.
ProcessGone ==
    /\ phase' = "down"
    /\ StartMemory(FreshEngine)
    /\ aofOpen' = FALSE
    /\ cfg' = [aof |-> FALSE, rdb |-> FALSE]
    /\ restoredFrom' = "none"
    /\ found' = [log |-> FALSE, snap |-> FALSE]
    /\ fullLog' = << >>
    /\ UNCHANGED << mapVars, now, tampered, lastSaved, aofExists, aofDisk, tmpDisk, rdbDir,
                    opsStarted, snapsStarted >>

\* The process is killed.
Crash == phase = "up" /\ ProcessGone

\* main returns after svc.Close.
Exit == phase = "up" /\ pc["closer"] = "done" /\ ProcessGone

\* Bytes that are no record, as an outside writer may leave them at the end
\* of the log: an unknown verb, a SET with two fields, a value that is no
\* base64, a timestamp that is no number; the first also with a record after it.
Garbage ==
    LET broken == << 66, 82, 79, 75, 69, 78, TAB, 108, 105, 110, 101, LF >>
    IN  { broken,
          broken \o SetLine(KeyB, ValShort, 0),
          SET \o << TAB >> \o KeyA \o << LF >>,
          SET \o << TAB >> \o KeyA \o << TAB, 33, TAB, 48, LF >>,
          SET \o << TAB >> \o KeyA \o << TAB >> \o EncodeToString(ValShort)
              \o << TAB, 120, LF >> }

\* While kvd is down, the log gets a damaged tail.
Corrupt(g) ==
    /\ phase = "down" /\ aofExists /\ ~tampered
    /\ aofDisk' = aofDisk \o g
    /\ tampered' = TRUE
    /\ UNCHANGED << mapVars, auxVars, now, phase, cfg, restoredFrom, found, histVars, engineVars,
                    aofExists, aofOpen, rewriting, incBuf, tmpDisk, rdbDir, svcVars, procVars >>


(***************************************************************************)
(* Spec: one run of kvd under the default configuration (log and snapshots *)
(* enabled), with two clients writing at once while the background         *)
(* goroutine rewrites the log, up to the shutdown.                         *)
(***************************************************************************)
vars == << now, runVars, auxVars, histVars, mapVars, engineVars, aofVars, rdbDir, svcVars, procVars >>

NothingOnDisk ==
    /\ aofDisk = << >> /\ tmpDisk = << >> /\ rdbDir = EmptyMap
    /\ tampered = FALSE /\ fullLog = << >>
    /\ lastSaved = [op |-> "", map |-> EmptyMap]
    /\ found = [log |-> FALSE, snap |-> FALSE]
    /\ opsStarted = 0 /\ snapsStarted = 0
    /\ now = Epoch

\* kvd has started on an empty data directory.
Init ==
    /\ NothingOnDisk /\ FreshMemory
    /\ phase = "up"
    /\ cfg = [aof |-> TRUE, rdb |-> TRUE]
    /\ restoredFrom = "aof"
    /\ aofExists = TRUE /\ aofOpen = TRUE

Next ==
    \/ \E p \in Clients, key \in Keys, value \in Values, ttl \in TTLs :
          Service_Set(p, key, value, ttl)
    \/ \E p \in Clients, key \in Keys : Service_Delete(p, key)
    \/ \E p \in Clients : Engine_SetLock(p)
    \/ \E p \in Clients : Engine_SetStore(p)
    \/ \E p \in Clients : Engine_SetPush(p)
    \/ \E p \in Clients : AOF_append(p)
    \/ \E p \in Clients : Service_recordChange(p)
    \/ Service_background
    \/ Engine_Snapshot("bg", "rwBegin")
    \/ AOF_RewriteBegin
    \/ AOF_RewriteCopy
    \/ AOF_RewriteRename
    \/ AOF_RewriteFail
    \/ AOF_RewriteRenameFail
    \/ AOF_RewriteReopenFail
    \/ Service_backgroundStop
    \/ Engine_ttlWorkerStop
    \/ Service_Close
    \/ Service_CloseWaitBg
    \/ Engine_Snapshot("closer", "save")
    \/ RDB_Save("closer")
    \/ AOF_Close
    \/ Engine_Close
    \/ Engine_CloseWait
    \/ Exit

Spec == Init /\ [][Next]_vars

(***************************************************************************)
(* SpecSeq: kvd over several runs with one client: it is started with any  *)
(* configuration, written to, snapshotted and killed, and its log damaged  *)
(* while it is down.                                                       *)
(***************************************************************************)
SeqKeys == {KeyA, KeyTab}
SeqValues == {ValShort, << >>}

InitSeq ==
    /\ NothingOnDisk /\ FreshMemory
    /\ phase = "down"
    /\ cfg = [aof |-> FALSE, rdb |-> FALSE]
    /\ restoredFrom = "none"
    /\ aofExists = FALSE /\ aofOpen = FALSE

NextSeq ==
    \/ \E c \in Configs : Start(c)
    \/ Crash
    \/ \E g \in Garbage : Corrupt(g)
    \/ \E key \in SeqKeys, value \in SeqValues, ttl \in TTLs : Service_Set("c1", key, value, ttl)
    \/ \E key \in SeqKeys : Service_Delete("c1", key)
    \/ Engine_SetLock("c1")
    \/ Engine_SetStore("c1")
    \/ Engine_SetPush("c1")
    \/ AOF_append("c1")
    \/ Service_recordChange("c1")
    \/ Service_Snapshot("c1")
    \/ Engine_Snapshot("c1", "save")
    \/ RDB_Save("c1")
    \/ Engine_evictExpired
    \/ Engine_evictPop
    \/ Engine_evictDelete
    \/ Tick

SpecSeq == InitSeq /\ [][NextSeq]_vars

(***************************************************************************)
(* SpecApi: one run of kvd with the log enabled and one client that writes *)
(* and reads, while the TTL worker evicts and writes to the log can fail.  *)
(***************************************************************************)
KeyEmpty == << >>

InitApi ==
    /\ NothingOnDisk /\ FreshMemory
    /\ phase = "up"
    /\ cfg = [aof |-> TRUE, rdb |-> FALSE]
    /\ restoredFrom = "aof"
    /\ aofExists = TRUE /\ aofOpen = TRUE

NextApi ==
    \/ \E key \in Keys \cup {KeyEmpty}, value \in Values, ttl \in TTLs :
          Service_Set("c1", key, value, ttl)
    \/ \E key \in Keys : Service_Delete("c1", key)
    \/ \E op \in ReadOps, key \in Keys : Service_Read("c1", op, key)
    \/ Engine_SetLock("c1")
    \/ Engine_SetStore("c1")
    \/ Engine_SetPush("c1")
    \/ AOF_append("c1")
    \/ AOF_appendFail("c1")
    \/ Service_recordChange("c1")
    \/ Engine_Read("c1")
    \/ Engine_ReadDelete("c1")
    \/ Engine_GetTTL("c1")
    \/ Engine_GetTTLDelete("c1")
    \/ Engine_evictExpired
    \/ Engine_evictPop
    \/ Engine_evictDelete
    \/ Tick

SpecApi == InitApi /\ [][NextApi]_vars

(***************************************************************************)
(* Service.background with save rules: the snapshot ticker and             *)
(* maybeAutoSnapshot. SpecAuto is one run of kvd with snapshots enabled,   *)
(* the log disabled and one rule, one change within two seconds.           *)
(***************************************************************************)
SaveRules == << [Seconds |-> 2, Changes |-> 1] >>

\* NewService: s.maxRuleSeconds, the longest window of the rules.
maxRuleSeconds ==
    CHOOSE s \in { SaveRules[n].Seconds : n \in DOMAIN SaveRules } :
        \A n \in DOMAIN SaveRules : SaveRules[n].Seconds <= s

\* maybeAutoSnapshot under changeMu: the leading times not After(cutoff)
\* are dropped.
TrimChanges(times, cutoff) ==
    LET after == { i \in DOMAIN times : times[i] > cutoff }
        first == IF after = {} THEN Len(times) + 1
                 ELSE CHOOSE i \in after : \A j \in after : i <= j
    IN  SubSeq(times, first, Len(times))

\* The count of a rule: the times from the newest back to the first one
\* Before(from).
CountTrailing(changes, from) ==
    LET before == { i \in DOMAIN changes : changes[i] < from }
        last == IF before = {} THEN 0
                ELSE CHOOSE i \in before : \A j \in before : j <= i
    IN  Len(changes) - last

\* The loop over the rules: some rule has count >= rule.Changes.
RuleFires(changes, t) ==
    \E n \in DOMAIN SaveRules :
        /\ SaveRules[n].Seconds > 0 /\ SaveRules[n].Changes > 0
        /\ CountTrailing(changes, t - SaveRules[n].Seconds) >= SaveRules[n].Changes

\* The ticker of Service.background fires as a second passes; its channel
\* holds one tick, which an idle goroutine takes before the next.
Ticker_Tick ==
    /\ now < Epoch + MaxTicks
    /\ pc["bg"] = "idle" => ~tickC
    /\ now' = now + 1
    /\ tickC' = TRUE
    /\ UNCHANGED << mapVars, runVars, ret, unsaved, histVars, engineVars, aofVars, rdbDir, svcVars,
                    procVars >>

\* case <-ticker.C: maybeAutoSnapshot up to the call of s.store.Snapshot().
Service_maybeAutoSnapshot ==
    LET kept == TrimChanges(changeTimes, now - maxRuleSeconds)
    IN  /\ phase = "up" /\ pc["bg"] = "idle" /\ tickC /\ cfg.rdb
        /\ tickC' = FALSE
        /\ changeTimes' = kept
        /\ IF RuleFires(kept, now)
           THEN /\ pc' = [pc EXCEPT !["bg"] = "snap"]
                /\ loc' = [loc EXCEPT !["bg"] = [NoLocals EXCEPT !.op = "auto", !.t = now,
                                                                !.pre = StoreMap(shards)]]
                /\ unsaved' = << >>
           ELSE UNCHANGED << pc, loc, unsaved >>
        /\ UNCHANGED << now, mapVars, runVars, ret, histVars, engineVars, aofVars, rdbDir, stats,
                        bgStop, opsStarted, snapsStarted >>

\* maybeAutoSnapshot after rdb.Save: s.changeTimes = nil under changeMu.
Service_resetChanges ==
    /\ pc["bg"] = "reset"
    /\ changeTimes' = << >>
    /\ Return("bg")
    /\ UNCHANGED << now, mapVars, runVars, auxVars, histVars, engineVars, aofVars, rdbDir, stats,
                    bgStop, opsStarted, snapsStarted >>

InitAuto ==
    /\ NothingOnDisk /\ FreshMemory
    /\ phase = "up"
    /\ cfg = [aof |-> FALSE, rdb |-> TRUE]
    /\ restoredFrom = "none"
    /\ aofExists = FALSE /\ aofOpen = FALSE

NextAuto ==
    \/ \E key \in Keys, value \in Values : Service_Set("c1", key, value, 0)
    \/ \E key \in Keys : Service_Delete("c1", key)
    \/ Engine_SetLock("c1")
    \/ Engine_SetStore("c1")
    \/ Service_recordChange("c1")
    \/ Ticker_Tick
    \/ Service_maybeAutoSnapshot
    \/ Engine_Snapshot("bg", "save")
    \/ RDB_Save("bg")
    \/ Service_resetChanges

SpecAuto == InitAuto /\ [][NextAuto]_vars

(***************************************************************************)
(* The Service over ConcurrentMap and TTLManager (times in milliseconds).  *)
(***************************************************************************)
engineGen == << runVars, auxVars, histVars, engineVars, aofVars, rdbDir, svcVars, snapsStarted >>

\* h[0] of sha256.Sum256(key) for the keys of the model: the SHA-256 digests
\* of "a", "b" and "a\tb" start with the bytes ca, 3e and 89.
Sum256First(key) == IF key = KeyA THEN 202 ELSE IF key = KeyB THEN 62 ELSE 137

\* ConcurrentMap.getShard: the low bits of the digest, masked (the shard
\* count is a power of two).
getShard(key) == Sum256First(key) % ShardCount

\* Set, Get and Delete begin with recordRequest, which loads the request map.
MapService_Call(p, op, key, value, ttl) ==
    /\ phase = "up" /\ pc[p] = "idle"
    /\ opsStarted < (IF op = "get" THEN MaxCalls ELSE MaxOps)
    /\ opsStarted' = opsStarted + 1
    /\ pc' = [pc EXCEPT ![p] = "record"]
    /\ loc' = [loc EXCEPT ![p] = [NoLocals EXCEPT !.op = op, !.key = key, !.value = value,
                                                  !.t = ttl, !.reqs = requests]]
    /\ UNCHANGED << now, mapVars, engineGen >>

MapService_Set(p, key, value, ttl) == MapService_Call(p, "set", key, value, ttl)
MapService_Get(p, key) == MapService_Call(p, "get", key, << >>, 0)
MapService_Delete(p, key) == MapService_Call(p, "del", key, << >>, 0)

\* recordRequest: the copy of the loaded map, with the operation counted, is
\* stored; the key and the value of the model pass validation.
MapService_recordRequest(p) ==
    /\ pc[p] = "record"
    /\ requests' = [loc[p].reqs EXCEPT ![loc[p].op] = @ + 1]
    /\ pc' = [pc EXCEPT ![p] = IF loc[p].op = "set" THEN "check"
                               ELSE IF loc[p].op = "del" THEN "mapDelete" ELSE "mapGet"]
    /\ UNCHANGED << now, cmItems, cmMem, svcMemUsage, hits, misses, tmHeap, tmStopped,
                    engineGen, loc, opsStarted >>

\* Service.Set: expiresAt, atomic.LoadInt64(&s.memUsage) and the admission check.
MapService_SetCheck(p) ==
    /\ pc[p] = "check"
    /\ IF svcMemUsage + Len(loc[p].key) + Len(loc[p].value) > MaxMemory
       THEN Return(p)
       ELSE /\ pc' = [pc EXCEPT ![p] = "mapSet"]
            /\ loc' = [loc EXCEPT ![p].expiresAt = IF loc[p].t > 0 THEN now + loc[p].t ELSE 0]
    /\ UNCHANGED << now, mapVars, engineGen, opsStarted >>

\* The results the callers hold once the map's entry of key is replaced or
\* deleted: the buffers they got are the map's no more.
Unshare(r, key) ==
    [q \in DOMAIN r |-> IF r[q].key = key THEN [r[q] EXCEPT !.shared = FALSE] ELSE r[q]]

\* ConcurrentMap.Set under the shard lock; its result is memDelta.
ConcurrentMap_Set(p) ==
    LET i == getShard(loc[p].key)
        key == loc[p].key
        memDelta == (Len(key) + Len(loc[p].value))
                      - (IF key \in DOMAIN cmItems[i]
                         THEN Len(key) + Len(cmItems[i][key].Value) ELSE 0)
    IN  /\ pc[p] = "mapSet"
        /\ cmItems' = [cmItems EXCEPT ![i] = MapPut(@, key, Entry(loc[p].value, loc[p].expiresAt))]
        /\ cmMem' = [cmMem EXCEPT ![i] = @ + memDelta]
        /\ lastWrite' = MapPut(lastWrite, key, Entry(loc[p].value, loc[p].expiresAt))
        /\ ret' = Unshare(ret, key)
        /\ loc' = [loc EXCEPT ![p].delta = memDelta]
        /\ pc' = [pc EXCEPT ![p] = "addMem"]
        /\ UNCHANGED << now, svcMemUsage, requests, hits, misses, tmHeap, tmStopped,
                        runVars, tickC, unsaved, fullLog, lastSaved, engineVars, aofVars, rdbDir, svcVars,
                        snapsStarted, opsStarted >>

\* ConcurrentMap.Delete under the shard lock; its result is memDelta.
ConcurrentMap_Delete(p) ==
    LET i == getShard(loc[p].key)
        key == loc[p].key
        memDelta == IF key \in DOMAIN cmItems[i]
                    THEN 0 - (Len(key) + Len(cmItems[i][key].Value)) ELSE 0
    IN  /\ pc[p] = "mapDelete"
        /\ cmItems' = [cmItems EXCEPT ![i] = MapDel(@, key)]
        /\ cmMem' = [cmMem EXCEPT ![i] = @ + memDelta]
        /\ lastWrite' = MapDel(lastWrite, key)
        /\ ret' = Unshare(ret, key)
        /\ loc' = [loc EXCEPT ![p].delta = memDelta]
        /\ pc' = [pc EXCEPT ![p] = "addMem"]
        /\ UNCHANGED << now, svcMemUsage, requests, hits, misses, tmHeap, tmStopped,
                        runVars, tickC, unsaved, fullLog, lastSaved, engineVars, aofVars, rdbDir, svcVars,
                        snapsStarted, opsStarted >>

\* atomic.AddInt64(&s.memUsage, memDelta); Delete returns, and so does Set
\* without a TTL.
MapService_AddMem(p) ==
    /\ pc[p] = "addMem"
    /\ svcMemUsage' = svcMemUsage + loc[p].delta
    /\ IF loc[p].op = "set" /\ loc[p].t > 0
       THEN pc' = [pc EXCEPT ![p] = "ttlAdd"] /\ UNCHANGED loc
       ELSE Return(p)
    /\ UNCHANGED << now, cmItems, cmMem, requests, hits, misses, tmHeap, tmStopped,
                    engineGen, opsStarted >>

\* TTLManager.Add under tm.mu: nothing once stopped, else heap.Push.
TTLManager_Add(p) ==
    /\ pc[p] = "ttlAdd"
    /\ tmHeap' = IF tmStopped THEN tmHeap
                 ELSE HeapPush(tmHeap, [key |-> loc[p].key, expiresAt |-> loc[p].expiresAt])
    /\ Return(p)
    /\ UNCHANGED << now, cmItems, cmMem, svcMemUsage, requests, hits, misses, tmStopped,
                    engineGen, opsStarted >>

\* The ttlRemaining of Service.Get over ConcurrentMap, in milliseconds: it
\* stays 0 unless expiresAt > 0, and is time.Until floored at 0 otherwise.
TtlRemaining(expiresAt, t) ==
    IF expiresAt > 0 THEN (IF expiresAt - t < 0 THEN 0 ELSE expiresAt - t) ELSE 0

\* Service.Get: ConcurrentMap.Get hides an entry past its expiry without
\* deleting it; a hit or a miss is counted, and a hit returns entry.Value,
\* the slice the map keeps, and ttlRemaining.
ConcurrentMap_Get(p) ==
    LET i == getShard(loc[p].key)
        key == loc[p].key
        exists == /\ key \in DOMAIN cmItems[i]
                  /\ ~(cmItems[i][key].ExpiresAt > 0 /\ now > cmItems[i][key].ExpiresAt)
    IN  /\ pc[p] = "mapGet"
        /\ hits' = IF exists THEN hits + 1 ELSE hits
        /\ misses' = IF exists THEN misses ELSE misses + 1
        /\ Reply(p, IF exists
                    THEN [Result("get", key, CodeOK) EXCEPT
                             !.value = cmItems[i][key].Value,
                             !.shared = TRUE,
                             !.ttl = TtlRemaining(cmItems[i][key].ExpiresAt, now)]
                    ELSE Result("get", key, CodeKeyNotFound))
        /\ UNCHANGED << now, cmItems, cmMem, svcMemUsage, requests, tmHeap, tmStopped,
                        runVars, tickC, unsaved, histVars, engineVars, aofVars, rdbDir, svcVars,
                        snapsStarted, opsStarted >>

\* TTLManager.process under tm.mu: an item due is popped off the heap.
TTLManager_process ==
    /\ phase = "up" /\ pc["ttl"] = "idle" /\ ~tmStopped
    /\ tmHeap # << >> /\ ~(tmHeap[1].expiresAt > now)
    /\ tmHeap' = HeapPopRest(tmHeap)
    /\ pc' = [pc EXCEPT !["ttl"] = "expire"]
    /\ loc' = [loc EXCEPT !["ttl"].key = tmHeap[1].key, !["ttl"].expiresAt = tmHeap[1].expiresAt]
    /\ UNCHANGED << now, cmItems, cmMem, svcMemUsage, requests, hits, misses, tmStopped,
                    engineGen, opsStarted >>

\* The onExpire callback of NewService: s.storage.Delete(key), whose result
\* is dropped.
onExpire ==
    LET i == getShard(loc["ttl"].key)
        key == loc["ttl"].key
        memDelta == IF key \in DOMAIN cmItems[i]
                    THEN 0 - (Len(key) + Len(cmItems[i][key].Value)) ELSE 0
    IN  /\ pc["ttl"] = "expire"
        /\ cmItems' = [cmItems EXCEPT ![i] = MapDel(@, key)]
        /\ cmMem' = [cmMem EXCEPT ![i] = @ + memDelta]
        /\ ret' = Unshare(ret, key)
        /\ Return("ttl")
        /\ UNCHANGED << now, svcMemUsage, requests, hits, misses, tmHeap, tmStopped,
                        runVars, tickC, unsaved, histVars, engineVars, aofVars, rdbDir, svcVars,
                        snapsStarted, opsStarted >>

\* The caller of Get writes to the slice it was given: its first byte
\* becomes 'z'. A write to a slice reaches every slice with the same backing
\* array, the map's entry among them when the slice is shared.
Scribble(value) == [value EXCEPT ![1] = 122]

Caller_Mutate(p) ==
    LET key == ret[p].key
        i == getShard(key)
    IN  /\ phase = "up" /\ pc[p] = "idle"
        /\ ret[p].op = "get" /\ ret[p].code = CodeOK
        /\ ret[p].value # << >> /\ ret[p].value[1] # 122
        /\ ret' = [q \in DOMAIN ret |->
                     IF q = p \/ (ret[p].shared /\ ret[q].shared /\ ret[q].key = key)
                     THEN [ret[q] EXCEPT !.value = Scribble(@)] ELSE ret[q]]
        /\ cmItems' = IF ret[p].shared
                      THEN [cmItems EXCEPT ![i][key].Value = Scribble(@)] ELSE cmItems
        /\ UNCHANGED << now, cmMem, svcMemUsage, requests, hits, misses, tmHeap, tmStopped,
                        runVars, tickC, unsaved, histVars, engineVars, aofVars, rdbDir, svcVars,
                        snapsStarted, procVars >>

\* Service.Stop: TTLManager.Stop sets stopped and closes stopCh.
TTLManager_Stop ==
    /\ phase = "up" /\ ~tmStopped
    /\ tmStopped' = TRUE
    /\ UNCHANGED << now, cmItems, cmMem, svcMemUsage, requests, hits, misses, tmHeap,
                    engineGen, procVars >>

\* The Service has been made and started, with nothing stored.
InitMap ==
    /\ NothingOnDisk /\ FreshMemory
    /\ phase = "up"
    /\ cfg = [aof |-> FALSE, rdb |-> FALSE]
    /\ restoredFrom = "none"
    /\ aofExists = FALSE /\ aofOpen = FALSE

NextMap ==
    \/ \E p \in Clients, key \in SeqKeys, value \in Values, ttl \in TTLs :
          MapService_Set(p, key, value, ttl)
    \/ \E p \in Clients, key \in SeqKeys : MapService_Get(p, key)
    \/ \E p \in Clients, key \in SeqKeys : MapService_Delete(p, key)
    \/ \E p \in Clients : MapService_recordRequest(p)
    \/ \E p \in Clients : MapService_SetCheck(p)
    \/ \E p \in Clients : ConcurrentMap_Set(p)
    \/ \E p \in Clients : ConcurrentMap_Delete(p)
    \/ \E p \in Clients : MapService_AddMem(p)
    \/ \E p \in Clients : TTLManager_Add(p)
    \/ \E p \in Clients : ConcurrentMap_Get(p)
    \/ TTLManager_process
    \/ onExpire
    \/ TTLManager_Stop
    \/ Tick

SpecMap == InitMap /\ [][NextMap]_vars

(***************************************************************************)
(* Properties of a run under concurrent writers (Spec).                    *)
(***************************************************************************)
\* Whether the bytes of line occur in the byte stream f.
Contains(f, line) ==
    \E i \in 1 .. Len(f) - Len(line) + 1 : SubSeq(f, i, i + Len(line) - 1) = line

\* What a replay of the byte stream f restores: key -> entry.
Replayed(f) ==
    LET kv == parseAOF(f).kv
    IN  [k \in DOMAIN kv |-> Entry(kv[k].Value, kv[k].ExpiresAt)]

WritersIdle == \A p \in Clients : pc[p] = "idle"

\* C1: under every interleaving of concurrent set calls, the memory-usage
\* counter never exceeds max_memory.
C1_MemoryWithinMax == memUsage <= MaxMemory

\* C3: when a set or delete returns success with the log enabled, its SET or
\* DEL record is in the byte stream of the log.
C3_LoggedBeforeAck ==
    [][\A p \in Clients :
          (cfg.aof /\ pc[p] = "change" /\ pc'[p] = "idle" /\ phase' = "up")
             => Contains(aofDisk', OpLine(loc[p]))]_vars

\* C4: writes to one key reach the log in the order they were applied to the
\* shard: once the writers are done, replaying what was appended gives every
\* key the entry the store holds (while the log is open, rewrites aside).
C4_LogOrderIsApplyOrder ==
    (phase = "up" /\ WritersIdle /\ pc["closer"] = "idle")
        => Replayed(fullLog) = StoreMap(shards)

\* C7: a rewrite at any point, with writes before, during and after it, leaves
\* a log that replays to the same state as the log never rewritten. (Checked
\* where the store itself agrees with the log never rewritten.)
C7_RewritePreservesReplay ==
    (phase = "up" /\ WritersIdle /\ pc["bg"] = "idle" /\ pc["closer"] = "idle"
       /\ Replayed(fullLog) = StoreMap(shards))
        => Replayed(aofDisk) = Replayed(fullLog)


(***************************************************************************)
(* Properties of the start of kvd (SpecSeq).                               *)
(***************************************************************************)
\* A step of main that starts kvd with the log enabled, or with it disabled.
StartsWithLog == phase = "down" /\ cfg'.aof
StartsWithSnapshotsOnly == phase = "down" /\ ~cfg'.aof /\ cfg'.rdb

\* The entries a sequence of records holds, a later record winning.
RecordsMap(records) ==
    [k \in { records[i].Key : i \in DOMAIN records } |->
        LET last == CHOOSE i \in DOMAIN records :
                       /\ records[i].Key = k
                       /\ \A j \in DOMAIN records : records[j].Key = k => j <= i
        IN  Entry(records[last].Value, records[last].ExpiresAt)]

\* The log cut at the end of its last line that parses.
ValidPrefix(f) == SubSeq(f, 1, parseAOF(f).offset)

\* C5: after any sequence of successful sets and deletes, replaying the log
\* into an empty map gives exactly the keys and values of the store (entries
\* expired by now aside).
C5_ReplayEqualsStore ==
    (phase = "up" /\ cfg.aof /\ ~tampered /\ pc["c1"] = "idle")
        => Live(Replayed(aofDisk), now) = Live(StoreMap(shards), now)

\* C6: when valid records of the log are followed by a line that does not
\* parse, kvd starts without error, loads exactly the records before that
\* line, and cuts the file at the end of the last line that parsed.
C6_CorruptTailRecovered ==
    [][(StartsWithLog /\ tampered /\ ~parseAOF(aofDisk).ok /\ parseAOF(aofDisk).offset > 0)
          => /\ phase' = "up"
             /\ aofDisk' = ValidPrefix(aofDisk)
             /\ StoreMap(shards') = Live(Replayed(ValidPrefix(aofDisk)), now)]_vars

\* C8: when kvd starts with the log enabled, a log file on disk and a
\* snapshot on disk, every entry of the store comes from the log: no record
\* of the snapshot alone is loaded.
C8_LogPreferredOverSnapshot ==
    [][(StartsWithLog /\ aofExists /\ Candidates(rdbDir) # {} /\ phase' = "up")
          => \A k \in DOMAIN StoreMap(shards') :
                /\ k \in DOMAIN Replayed(aofDisk)
                /\ StoreMap(shards')[k] = Replayed(aofDisk)[k]]_vars

\* kvd has just started with the log enabled, found a log file and a snapshot,
\* and left a key of the snapshot out of the store.
C8_Witness ==
    /\ phase = "up" /\ cfg.aof /\ cfg.rdb /\ found.log /\ found.snap
    /\ stats = ZeroStats /\ pc["c1"] = "idle"
    /\ \E k \in DOMAIN RecordsMap(LoadLatest(rdbDir)) : k \notin DOMAIN StoreMap(shards)

\* C9: when kvd starts with the log enabled but no log file on disk, and
\* snapshots enabled with a snapshot on disk, the latest snapshot is loaded.
C9_SnapshotLoadedWithoutLogFile ==
    [][(StartsWithLog /\ ~aofExists /\ cfg'.rdb /\ Candidates(rdbDir) # {})
          => StoreMap(shards') = Live(RecordsMap(LoadLatest(rdbDir)), now)]_vars

\* C10: a snapshot saved, then loaded by a start with the log disabled, gives
\* back every key not expired, with its value and its expires_at.
C10_SnapshotRoundTrip ==
    [][(StartsWithSnapshotsOnly /\ lastSaved.op = "snapshot")
          => /\ phase' = "up"
             /\ StoreMap(shards') = Live(lastSaved.map, now)]_vars

\* kvd has just started from a snapshot and holds a key with an expiry again.
C10_Witness ==
    /\ phase = "up" /\ restoredFrom = "rdb" /\ lastSaved.op = "snapshot"
    /\ stats = ZeroStats /\ pc["c1"] = "idle"
    /\ StoreMap(shards) = Live(lastSaved.map, now)
    /\ \E k \in DOMAIN StoreMap(shards) : StoreMap(shards)[k].ExpiresAt > 0

(***************************************************************************)
(* Properties of the Service over ConcurrentMap (SpecMap).                 *)
(***************************************************************************)
RECURSIVE SumMem(_)
SumMem(S) == IF S = {} THEN 0 ELSE LET i == CHOOSE x \in S : TRUE IN cmMem[i] + SumMem(S \ {i})

\* C2: after any sequence of sets, overwrites, deletes and expirations, when
\* no operation is under way the memory-usage counter of the service equals
\* the sum of the byte counters of the shards.
C2_CounterEqualsShardSum ==
    (\A p \in Procs : pc[p] = "idle") => svcMemUsage = SumMem(Shards)


(***************************************************************************)
(* Reads and writes as the client sees them.                               *)
(***************************************************************************)
\* C11: a key that was set without a TTL is read back with its value and
\* with ttl_remaining = -1: whenever a get finds an entry stored without
\* expiry, it returns that entry's value and a remaining TTL of -1.
C11_GetWithoutTTL ==
    [][\A p \in Clients :
          LET key == loc[p].key
              m == cmItems[getShard(key)]
          IN  (pc[p] = "mapGet" /\ pc'[p] = "idle"
                 /\ key \in DOMAIN m /\ m[key].ExpiresAt = 0)
              => (ret'[p].code = CodeOK /\ ret'[p].value = m[key].Value /\ ret'[p].ttl = -1)]_vars


\* The steps with which a read of client p returns.
ReadReturns(p) ==
    pc[p] \in {"read", "readDel", "getTtl", "getTtlDel"} /\ pc'[p] = "idle"

\* C12: once the clock has reached the expiry of a key that was set with a
\* TTL, a get of the key returns KeyNotFound and an exists returns false,
\* whether the expired entry is still in the map, is removed by the read
\* itself or is removed by the TTL worker while the read runs.
C12_ExpiredKeyHidden ==
    [][\A p \in Clients :
          (ReadReturns(p) /\ loc[p].stale)
          => /\ loc[p].op = "get" => ret'[p].code = CodeKeyNotFound
             /\ loc[p].op = "exists" => ret'[p].ok = FALSE]_vars

\* A get has returned KeyNotFound for a key whose item, past its expiry, is
\* still on the TTL heap: the TTL worker has not come to it.
C12_Witness ==
    /\ ret["c1"].op = "get" /\ ret["c1"].code = CodeKeyNotFound
    /\ \E n \in DOMAIN ttlq : ttlq[n].key = ret["c1"].key /\ ttlq[n].expiresAt <= now


\* C13: after set(k, v1) and then set(k, v2), a get of k returns v2, and the
\* overwrite changes the memory counter by exactly len(v2) - len(v1): a get
\* of a key whose latest set carried no TTL, and which no client deleted
\* since, returns the value of that set; and a set over an entry in the map
\* moves the shard's byte counter by the difference of the value lengths.
C13_OverwriteReadsLatest ==
    [][\A p \in Clients :
          LET key == loc[p].key
              i == getShard(key)
          IN  /\ (pc[p] = "mapGet" /\ pc'[p] = "idle"
                     /\ key \in DOMAIN lastWrite /\ lastWrite[key].ExpiresAt = 0)
                  => (ret'[p].code = CodeOK /\ ret'[p].value = lastWrite[key].Value)
              /\ (pc[p] = "mapSet" /\ pc'[p] = "addMem" /\ key \in DOMAIN cmItems[i])
                  => cmMem'[i] - cmMem[i] = Len(loc[p].value) - Len(cmItems[i][key].Value)]_vars


\* A step of client p within a Delete that found its key absent.
AbsentDeleteStep(p) ==
    /\ pc[p] # pc'[p]
    /\ \/ loc[p].op = "del" /\ ~loc[p].ok
       \/ loc'[p].op = "del" /\ ~loc'[p].ok

\* C14: a delete of a key that is not in the store returns success (unless
\* the write to the log fails) and leaves the key count, the memory counter,
\* the hit and miss counters and the change counter of the auto-save as they
\* were.
C14_AbsentDeleteChangesNothing ==
    [][\A p \in Clients :
          AbsentDeleteStep(p)
          => /\ DOMAIN StoreMap(shards') = DOMAIN StoreMap(shards)
             /\ memUsage' = memUsage
             /\ stats'.Hits = stats.Hits /\ stats'.Misses = stats.Misses
             /\ Len(changeTimes') = Len(changeTimes)
             /\ (pc'[p] = "idle" /\ pc[p] # "append") => ret'[p].code = CodeOK]_vars


\* C15: a set rejected with MemoryFull leaves the map, the memory counter,
\* the TTL heap and the log exactly as they were: no step of a set, from
\* its call to its rejection, changes any of them.
C15_RejectionChangesNothing ==
    [][\A p \in Clients :
          (/\ pc[p] \in {"idle", "setLock"}
           /\ pc'[p] \in {"idle", "setLock"}
           /\ ret'[p].op = "set" \/ loc'[p].op = "set"
           /\ ret'[p] # ret[p] \/ loc'[p] # loc[p])
          => /\ shards' = shards /\ memUsage' = memUsage
             /\ ttlq' = ttlq /\ aofDisk' = aofDisk
             /\ (pc[p] = "setLock" /\ pc'[p] = "idle") => ret'[p].code = CodeMemoryFull]_vars

\* A set has been rejected with MemoryFull while the store holds an entry.
C15_Witness ==
    /\ pc["c1"] = "idle" /\ ret["c1"].op = "set" /\ ret["c1"].code = CodeMemoryFull
    /\ memUsage > 0 /\ StoreMap(shards) # EmptyMap


\* C16: a set is admitted exactly when mem_usage + len(key) + len(value) is
\* at most max_memory: the admission check of a set lets it go on to the
\* store if and only if that sum, with the counter as the check reads it,
\* does not exceed MaxMemory.
C16_AdmittedIffWithinMax ==
    [][\A p \in Clients :
          (pc[p] = "setLock" /\ pc'[p] # "setLock")
          => (pc'[p] = "setStore"
                <=> memUsage + Len(loc[p].key) + Len(loc[p].value) <= MaxMemory)]_vars


\* C17: once Close has begun, every operation is refused and changes
\* neither the map nor the log: a set or delete called after Service.Close
\* began returns at once with an error, and the map and the log file stay
\* as they were.
C17_RefusedOnceClosing ==
    [][\A p \in Clients :
          (bgStop /\ pc[p] = "idle" /\ opsStarted' # opsStarted
             /\ (pc'[p] # "idle" \/ ret'[p] # ret[p]))
          => /\ pc'[p] = "idle" /\ ret'[p].code # CodeOK
             /\ shards' = shards /\ aofDisk' = aofDisk]_vars


\* C19: when the append to the log fails, the call returns an Internal
\* error and the in-memory state keeps the mutation: the step on which a
\* set or delete returns out of a failed append gives CodeInternal and
\* leaves the map, the memory counter and the TTL heap as the call had made
\* them, the entry of a set stored and the key of a delete gone.
C19_AppendFailureKeepsMutation ==
    [][\A p \in Clients :
          LET key == loc[p].key
              m == shards'[shardIndex(key)]
          IN  (pc[p] = "append" /\ pc'[p] = "idle")
              => /\ ret'[p].code = CodeInternal
                 /\ shards' = shards /\ memUsage' = memUsage /\ ttlq' = ttlq
                 /\ loc[p].op = "del" => key \notin DOMAIN m
                 /\ (loc[p].op = "set" /\ ~(loc[p].expiresAt > 0 /\ loc[p].expiresAt <= now))
                    => (key \in DOMAIN m /\ m[key] = Entry(loc[p].value, loc[p].expiresAt))]_vars

\* A set has returned CodeInternal and its key is in the store.
C19_Witness ==
    /\ pc["c1"] = "idle" /\ ret["c1"].op = "set" /\ ret["c1"].code = CodeInternal
    /\ ret["c1"].key \in DOMAIN StoreMap(shards)


\* C20: a call rejected by validation returns the error without changing
\* the map, the memory counter, the TTL heap, the log or any statistics
\* counter.
C20_ValidationErrorChangesNothing ==
    [][\A p \in Clients :
          (/\ pc[p] = "idle" /\ pc'[p] = "idle" /\ opsStarted' # opsStarted
           /\ ret'[p].code \in {CodeInvalidRequest, CodeKeyTooLong, CodeValueTooLarge})
          => /\ shards' = shards /\ memUsage' = memUsage
             /\ ttlq' = ttlq /\ aofDisk' = aofDisk
             /\ stats' = stats]_vars


\* Some rule has its number of changes within its trailing window at time t.
RuleSatisfied(times, t) ==
    \E n \in DOMAIN SaveRules :
        Cardinality({ i \in DOMAIN times : times[i] >= t - SaveRules[n].Seconds })
            >= SaveRules[n].Changes

\* C18: whenever successful sets and deletes to the number of a rule have
\* occurred within the rule's trailing window, the next periodic evaluation
\* triggers a save, with no further write: an evaluation that finds a rule
\* satisfied by the changes recorded since a save was last triggered, while
\* the latest snapshot differs from the store, starts a snapshot.
C18_SatisfiedRuleTriggersSave ==
    [][(/\ pc["bg"] = "idle" /\ tickC /\ ~tickC'
        /\ RuleSatisfied(unsaved, now)
        /\ RecordsMap(LoadLatest(rdbDir)) # StoreMap(shards))
       => pc'["bg"] = "snap"]_vars


\* C21: after set(k, v, _) and delete(k), with no later set of k, a get of k
\* reports not found and exists is false, and the delete lowers the memory
\* counter by exactly what the entry had contributed: the Delete that finds
\* the entry of the latest set takes it out of the map and its estimated
\* size off the counter, and a read of a key whose latest write was a
\* delete finds nothing.
C21_DeleteRemoves ==
    [][\A p \in Clients :
          /\ (pc[p] = "idle" /\ loc'[p].op = "del" /\ loc'[p].ok)
             => LET key == loc'[p].key
                IN  /\ key \notin DOMAIN StoreMap(shards')
                    /\ key \in DOMAIN lastWrite
                        => memUsage - memUsage' = Len(key) + Len(lastWrite[key].Value) + 32
          /\ (ReadReturns(p) /\ loc[p].key \notin DOMAIN lastWrite)
             => /\ loc[p].op \in {"get", "ttl"} => ret'[p].code = CodeKeyNotFound
                /\ loc[p].op = "exists" => ret'[p].ok = FALSE]_vars

\* A get has reported not found for a key that was set and then deleted.
C21_Witness ==
    /\ pc["c1"] = "idle" /\ ret["c1"].op = "get" /\ ret["c1"].code = CodeKeyNotFound
    /\ stats.ReqSet = 1 /\ stats.ReqDel = 1 /\ Len(changeTimes) = 2
    /\ memUsage = 0


\* C22: the key of a popped heap item is deleted only if the shard's entry
\* for it still has the expiry of the item and that time has passed; a key
\* set again with another TTL or with none is not deleted by the pop of the
\* old item. Stated for the step that acts on the popped item, in either
\* generation: if it removes an entry, the entry had the item's expiry and
\* the clock had reached it.
C22_PopDeletesOnlyItsEntry ==
    [][/\ LET key == loc["ttl"].key
              m == cmItems[getShard(key)]
          IN  (pc["ttl"] = "expire" /\ pc'["ttl"] = "idle"
                 /\ key \in DOMAIN m /\ key \notin DOMAIN cmItems'[getShard(key)])
              => (m[key].ExpiresAt = loc["ttl"].expiresAt /\ m[key].ExpiresAt <= now)
       /\ LET key == loc["ttl"].key
              m == shards[shardIndex(key)]
          IN  (pc["ttl"] = "del" /\ pc'["ttl"] = "pop"
                 /\ key \in DOMAIN m /\ key \notin DOMAIN shards'[shardIndex(key)])
              => (m[key].ExpiresAt = loc["ttl"].expiresAt /\ m[key].ExpiresAt <= now)]_vars

(***************************************************************************)
(* Properties of a rewrite that fails (Spec).                              *)
(***************************************************************************)
\* A step in which AOF.Rewrite returns.
RewriteReturns == pc["bg"] \in {"rwCopy", "rwRename"} /\ pc'["bg"] = "idle"

\* C23: a rewrite that returns leaves rewriting unset and the file at the log
\* path either untouched or replaced by the whole tmp file, and, while no
\* shutdown has begun, every append of a set or delete that goes on to
\* succeed adds its line to the file at the log path, also after a rewrite
\* that failed.
C23_OriginalLogCanonical ==
    [][/\ RewriteReturns => /\ ~rewriting'
                            /\ aofDisk' \in {aofDisk, tmpDisk}
       /\ \A p \in Clients :
             (pc[p] = "append" /\ pc'[p] = "change" /\ pc["closer"] = "idle")
                => aofDisk' = aofDisk \o OpLine(loc[p])]_vars

\* C24: every record appended while rewriting is set is written to the old
\* log, and when the tmp file is renamed over the log the new log is the
\* snapshot lines followed by all of those records, in the order they were
\* appended.
C24_RewriteKeepsConcurrentAppends ==
    [][/\ \A p \in Clients :
             (pc[p] = "append" /\ pc'[p] = "change" /\ rewriting)
                => aofDisk' = aofDisk \o OpLine(loc[p])
       /\ (RewriteReturns /\ pc["bg"] = "rwRename" /\ aofDisk' = tmpDisk)
             => aofDisk' = SnapshotLines(loc["bg"].snap) \o incBuf]_vars

(***************************************************************************)
(* SpecLock: the mutexes of the Engine generation. Every operation is the  *)
(* sequence of Lock, RLock, Unlock and RUnlock calls its code makes, in    *)
(* program order, with the branch it takes (entry expired or not, item due *)
(* or not) chosen when it starts. loc[p].calls holds the sequence,         *)
(* loc[p].delta counts the calls done and loc[p].held is the calls by      *)
(* which p holds a mutex. One client writes and the other reads.           *)
(***************************************************************************)
ShardMu(i) == [mu |-> "shard", i |-> i]
TtlqMu == [mu |-> "ttlq", i |-> 0]
AofMu == [mu |-> "aof", i |-> 0]
ChangeMu == [mu |-> "change", i |-> 0]

Lock(m) == [act |-> "Lock", mu |-> m]
RLock(m) == [act |-> "RLock", mu |-> m]
Unlock(m) == [act |-> "Unlock", mu |-> m]
RUnlock(m) == [act |-> "RUnlock", mu |-> m]

\* Engine.SetWithExpiresAt: s.mu.Lock(), deferred s.mu.Unlock(), and in
\* between e.ttlqMu for the push when expiresAt > 0.
SetWithExpiresAt_Locks(i, expiresAt) ==
    << Lock(ShardMu(i)) >>
      \o (IF expiresAt > 0 THEN << Lock(TtlqMu), Unlock(TtlqMu) >> ELSE << >>)
      \o << Unlock(ShardMu(i)) >>

\* Engine.deleteIfExpired and Engine.Delete
deleteIfExpired_Locks(i) ==
    << Lock(ShardMu(i)), Unlock(ShardMu(i)) >>

\* Engine.Get and Engine.TTL: the lookup under the read lock, then
\* deleteIfExpired when the entry found is expired.
Engine_Get_Locks(i, expired) ==
    << RLock(ShardMu(i)), RUnlock(ShardMu(i)) >>
      \o (IF expired THEN deleteIfExpired_Locks(i) ELSE << >>)

\* AOF.append, and Service.recordChange
AOF_append_Locks == << Lock(AofMu), Unlock(AofMu) >>
recordChange_Locks == << Lock(ChangeMu), Unlock(ChangeMu) >>

\* Service.Set and Service.Delete: the store, then the log, then recordChange.
Service_Set_Locks(i, expiresAt) ==
    SetWithExpiresAt_Locks(i, expiresAt) \o AOF_append_Locks \o recordChange_Locks
Service_Delete_Locks(i) ==
    deleteIfExpired_Locks(i) \o AOF_append_Locks \o recordChange_Locks

\* Service.Get: store.Get, and store.TTL after a hit. branch 0: both find a
\* live entry; 1: Get finds an expired one; 2: TTL finds an expired one.
Service_Get_Locks(i, branch) ==
    IF branch = 1 THEN Engine_Get_Locks(i, TRUE)
    ELSE Engine_Get_Locks(i, FALSE) \o Engine_Get_Locks(i, branch = 2)

\* The worker of the mutant below keeps the heap locked while it deletes.
evictExpired_LocksHeapHeld(i, due) ==
    << Lock(TtlqMu) >> \o (IF due THEN deleteIfExpired_Locks(i) ELSE << >>) \o << Unlock(TtlqMu) >>

\* One round of the loop of Engine.evictExpired: the heap is looked at and
\* popped under e.ttlqMu, which is unlocked before deleteIfExpired.
evictExpired_Locks(i, due) ==
    << Lock(TtlqMu), Unlock(TtlqMu) >> \o (IF due THEN deleteIfExpired_Locks(i) ELSE << >>)

\* Engine.Keys and the loop of Engine.Snapshot: one shard after the other
\* under its read lock.
RECURSIVE ShardsFrom_Locks(_)
ShardsFrom_Locks(i) ==
    IF i >= ShardCount THEN << >>
    ELSE << RLock(ShardMu(i)), RUnlock(ShardMu(i)) >> \o ShardsFrom_Locks(i + 1)
Snapshot_Locks == ShardsFrom_Locks(0) \o ShardsFrom_Locks(0)

\* AOF.Rewrite: its three critical sections.
Rewrite_Locks ==
    << Lock(AofMu), Unlock(AofMu), Lock(AofMu), Unlock(AofMu), Lock(AofMu), Unlock(AofMu) >>

\* Service.background on the rewrite ticker: NeedsRewrite, Snapshot, Rewrite.
background_Locks == AOF_append_Locks \o Snapshot_Locks \o Rewrite_Locks

\* The calls operation op makes on shard i with expiry or branch x.
LocksOf(op, i, x) ==
    CASE op = "set" -> Service_Set_Locks(i, x)
      [] op = "del" -> Service_Delete_Locks(i)
      [] op = "get" -> Service_Get_Locks(i, x)
      [] op = "evict" -> evictExpired_Locks(i, x = 1)
      [] op = "rewrite" -> background_Locks

\* The mutexes p holds, in any mode and as a writer.
Held(p) == { c.mu : c \in loc[p].held }
HeldW(p) == { c.mu : c \in { c \in loc[p].held : c.act = "Lock" } }

LockProcs == Clients \cup {"ttl", "bg"}
InCall(p) == pc[p] = "locks"
NextCall(p) == loc[p].calls[loc[p].delta + 1]
\* p has called Lock on m and waits for it (a sync.RWMutex lets no new
\* reader in while a writer waits).
WaitsFor(p, m) == InCall(p) /\ NextCall(p) = Lock(m)

lockVars == << now, mapVars, runVars, auxVars, histVars, shards, memUsage, ttlq, closed, stopCh,
               aofVars, rdbDir, svcVars, opsStarted, snapsStarted >>

\* A client, the TTL worker or the background goroutine starts an operation.
Mutex_Start(p, op, key, x) ==
    /\ phase = "up" /\ pc[p] = "idle"
    /\ pc' = [pc EXCEPT ![p] = "locks"]
    /\ loc' = [loc EXCEPT ![p] = [NoLocals EXCEPT !.op = op, !.key = key, !.t = x,
                                                  !.shard = shardIndex(key),
                                                  !.calls = LocksOf(op, shardIndex(key), x)]]
    /\ UNCHANGED << lockVars, shardMu >>

\* sync.Mutex.Lock and sync.RWMutex.Lock return once nobody holds the mutex;
\* sync.RWMutex.RLock once no writer holds the mutex or waits for it.
CanLock(p) == \A q \in LockProcs : NextCall(p).mu \notin Held(q)
CanRLock(p) ==
    \A q \in LockProcs : NextCall(p).mu \notin HeldW(q) /\ ~WaitsFor(q, NextCall(p).mu)

Mutex_Lock(p) ==
    /\ InCall(p) /\ NextCall(p).act = "Lock"
    /\ CanLock(p)
    /\ loc' = [loc EXCEPT ![p].delta = @ + 1, ![p].held = @ \cup {NextCall(p)}]
    /\ shardMu' = IF NextCall(p).mu.mu = "shard"
                  THEN [shardMu EXCEPT ![NextCall(p).mu.i] = p] ELSE shardMu
    /\ UNCHANGED << lockVars, pc >>

Mutex_RLock(p) ==
    /\ InCall(p) /\ NextCall(p).act = "RLock"
    /\ CanRLock(p)
    /\ loc' = [loc EXCEPT ![p].delta = @ + 1, ![p].held = @ \cup {NextCall(p)}]
    /\ UNCHANGED << lockVars, pc, shardMu >>

\* Unlock and RUnlock; the operation returns after its last call.
Mutex_Unlock(p) ==
    /\ InCall(p) /\ NextCall(p).act \in {"Unlock", "RUnlock"}
    /\ shardMu' = IF NextCall(p) = Unlock(ShardMu(NextCall(p).mu.i))
                  THEN [shardMu EXCEPT ![NextCall(p).mu.i] = NoProc] ELSE shardMu
    /\ IF loc[p].delta + 1 = Len(loc[p].calls)
       THEN Return(p)
       ELSE /\ loc' = [loc EXCEPT ![p].delta = @ + 1,
                                  ![p].held = { c \in @ : c.mu # NextCall(p).mu }]
            /\ UNCHANGED pc
    /\ UNCHANGED lockVars

\* p is in an operation and its next call returns.
CanStep(p) ==
    /\ InCall(p)
    /\ NextCall(p).act = "Lock" => CanLock(p)
    /\ NextCall(p).act = "RLock" => CanRLock(p)

NextLock ==
    \/ \E key \in Keys, ttl \in TTLs : Mutex_Start("c1", "set", key, ttl)
    \/ \E key \in Keys : Mutex_Start("c1", "del", key, 0)
    \/ \E key \in Keys, branch \in 0 .. 2 : Mutex_Start("c2", "get", key, branch)
    \/ \E key \in Keys, due \in 0 .. 1 : Mutex_Start("ttl", "evict", key, due)
    \/ Mutex_Start("bg", "rewrite", << >>, 0)
    \/ \E p \in LockProcs : Mutex_Lock(p)
    \/ \E p \in LockProcs : Mutex_RLock(p)
    \/ \E p \in LockProcs : Mutex_Unlock(p)

SpecLock == Init /\ [][NextLock]_vars

\* C25: a goroutine holds at most one shard lock; it holds no shard lock when
\* it calls Lock on the log's mutex, and neither the log's mutex nor the TTL
\* heap's nor another shard's when it locks a shard; and whenever operations
\* are under way (sets, gets, deletes, the TTL worker, snapshot and rewrite)
\* one of them can take its next step.
C25_LockDiscipline ==
    /\ \A p \in LockProcs :
          /\ Cardinality({ m \in Held(p) : m.mu = "shard" }) <= 1
          /\ (InCall(p) /\ NextCall(p) = Lock(AofMu))
                => \A m \in Held(p) : m.mu # "shard"
          /\ (InCall(p) /\ NextCall(p).act \in {"Lock", "RLock"} /\ NextCall(p).mu.mu = "shard")
                => Held(p) = {}
    /\ (\E p \in LockProcs : InCall(p)) => \E p \in LockProcs : CanStep(p)

\* A set pushes to the heap under its shard lock while the TTL worker waits
\* for the heap, a get that found an expired entry waits for the same shard
\* and the rewrite is in a critical section of the log.
C25_Witness ==
    /\ Held("c1") = {ShardMu(loc["c1"].shard), TtlqMu}
    /\ WaitsFor("ttl", TtlqMu) /\ loc["ttl"].t = 1
    /\ WaitsFor("c2", ShardMu(loc["c1"].shard))
    /\ Held("bg") = {AofMu} /\ loc["bg"].delta > 10

(***************************************************************************)
(* SpecRead: one run of kvd without persistence in which one client reads  *)
(* with Get while the other writes and the TTL worker evicts.              *)
(***************************************************************************)
InitRead ==
    /\ NothingOnDisk /\ FreshMemory
    /\ phase = "up"
    /\ cfg = [aof |-> FALSE, rdb |-> FALSE]
    /\ restoredFrom = "none"
    /\ aofExists = FALSE /\ aofOpen = FALSE

NextRead ==
    \/ \E key \in Keys, value \in Values, ttl \in TTLs : Service_Set("c2", key, value, ttl)
    \/ \E key \in Keys : Service_Delete("c2", key)
    \/ \E key \in Keys : Service_Read("c1", "get", key)
    \/ Engine_SetLock("c2")
    \/ Engine_SetStore("c2")
    \/ Engine_SetPush("c2")
    \/ Service_recordChange("c2")
    \/ Engine_Read("c1")
    \/ Engine_ReadDelete("c1")
    \/ Engine_GetTTL("c1")
    \/ Engine_GetTTLDelete("c1")
    \/ Engine_evictExpired
    \/ Engine_evictPop
    \/ Engine_evictDelete
    \/ Tick

SpecRead == InitRead /\ [][NextRead]_vars

\* C26: a get that returns a value returns the value and the remaining TTL of
\* one entry: an entry its key had at some instant of the call, with the TTL
\* that entry had in a second of the call.
C26_GetReadsOneEntry ==
    [][\A p \in Clients :
          (ReadReturns(p) /\ loc[p].op = "get" /\ ret'[p].code = CodeOK)
             => \E e \in loc[p].seen, t \in loc[p].t .. now :
                   /\ ret'[p].value = e.Value
                   /\ ret'[p].ttl \in Remaining(e.ExpiresAt, t)]_vars

\* C27: the request counters lose no update: once every call issued has
\* recorded its request, the per-operation counters together count all the
\* calls issued. (Stated of the ConcurrentMap generation's recordRequest; the
\* Engine generation counts with atomic adds.)
C27_CountersLoseNoUpdates ==
    (phase = "up" /\ \A p \in Clients : pc[p] # "record")
        => requests.set + requests.get + requests.del = opsStarted

(***************************************************************************)
(* SpecOwn: the Service over ConcurrentMap with one client that sets,      *)
(* gets and deletes and writes to the slices Get returned to it.           *)
(***************************************************************************)
NextOwn ==
    \/ \E key \in SeqKeys, value \in Values, ttl \in TTLs : MapService_Set("c1", key, value, ttl)
    \/ \E key \in SeqKeys : MapService_Get("c1", key)
    \/ \E key \in SeqKeys : MapService_Delete("c1", key)
    \/ MapService_recordRequest("c1")
    \/ MapService_SetCheck("c1")
    \/ ConcurrentMap_Set("c1")
    \/ ConcurrentMap_Delete("c1")
    \/ MapService_AddMem("c1")
    \/ TTLManager_Add("c1")
    \/ ConcurrentMap_Get("c1")
    \/ Caller_Mutate("c1")
    \/ TTLManager_process
    \/ onExpire
    \/ Tick

SpecOwn == InitMap /\ [][NextOwn]_vars

\* C28: a caller that writes to the buffer it received from get changes
\* nothing in the map, so that a later get of the key returns what was set.
C28_CallerCannotReachMapBuffer ==
    [][\A p \in Clients :
          (pc[p] = "idle" /\ pc'[p] = "idle" /\ ret'[p].value # ret[p].value)
             => cmItems' = cmItems]_vars

(***************************************************************************)
(* SpecClose: one run of kvd under the default configuration with one      *)
(* client that sets keys, the TTL worker, and the shutdown.                 *)
(***************************************************************************)
NextClose ==
    \/ \E key \in Keys, value \in Values, ttl \in TTLs : Service_Set("c1", key, value, ttl)
    \/ Engine_SetLock("c1")
    \/ Engine_SetStore("c1")
    \/ Engine_SetPush("c1")
    \/ AOF_append("c1")
    \/ Service_recordChange("c1")
    \/ Engine_evictExpired
    \/ Engine_evictPop
    \/ Engine_evictDelete
    \/ Tick
    \/ Service_backgroundStop
    \/ Engine_ttlWorkerStop
    \/ Service_Close
    \/ Service_CloseWaitBg
    \/ Engine_Snapshot("closer", "save")
    \/ RDB_Save("closer")
    \/ AOF_Close
    \/ AOF_SyncFail
    \/ AOF_CloseFail
    \/ Engine_Close
    \/ Engine_CloseWait
    \/ Exit

SpecClose == Init /\ [][NextClose]_vars

\* Close has begun its final snapshot.
FinalSnapshotStarted ==
    cfg.rdb /\ pc["closer"] \in {"snap", "save", "aofClose", "storeClose", "waitTtl", "done"}

\* C29: Close stops the tick loop and the expirer before it takes the final
\* snapshot: once the final snapshot has started the background goroutine
\* has returned and the TTL worker begins no round of eviction.
C29_QuietAfterFinalSnapshot ==
    [][FinalSnapshotStarted
          => /\ pc["bg"] = "done"
             /\ ~(pc["ttl"] = "idle" /\ pc'["ttl"] = "pop")]_vars

(***************************************************************************)
(* SpecReplay: AOFPersister.Replay into an empty ConcurrentMap, for every  *)
(* log of up to MaxLines lines.                                            *)
(***************************************************************************)
MaxLines == 3

\* strings.TrimRight(line, "\r\n")
RECURSIVE TrimRightCRLF(_)
TrimRightCRLF(s) ==
    IF s # << >> /\ s[Len(s)] \in {CR, LF} THEN TrimRightCRLF(SubSeq(s, 1, Len(s) - 1)) ELSE s

\* AOFPersister.applyLine at time t on the shards cm: an expired SET returns
\* nil before storage.Set, the other SETs and the DELs go to the map.
applyLine(cm, line, t) ==
    LET parts == Split(line, TAB)
    IN  IF line = << >> THEN [ok |-> TRUE, cm |-> cm]
        ELSE IF Len(parts) < 2 THEN [ok |-> FALSE, cm |-> cm]
        ELSE IF parts[1] = SET THEN
            IF Len(parts) # 4 THEN [ok |-> FALSE, cm |-> cm]
            ELSE LET val == DecodeString(parts[3])
                     exp == ParseInt(parts[4])
                 IN  IF ~val.ok \/ ~exp.ok THEN [ok |-> FALSE, cm |-> cm]
                     ELSE IF exp.val > 0 /\ exp.val <= t THEN [ok |-> TRUE, cm |-> cm]
                     ELSE [ok |-> TRUE,
                           cm |-> [cm EXCEPT ![getShard(parts[2])] =
                                      MapPut(@, parts[2], Entry(val.val, exp.val))]]
        ELSE IF parts[1] = DEL THEN
            IF Len(parts) # 2 THEN [ok |-> FALSE, cm |-> cm]
            ELSE [ok |-> TRUE, cm |-> [cm EXCEPT ![getShard(parts[2])] = MapDel(@, parts[2])]]
        ELSE [ok |-> FALSE, cm |-> cm]

\* The loop of AOFPersister.Replay from byte position pos: [cm, offset], the
\* shards and lastGoodOffset. A line applyLine rejects ends the loop, and the
\* file is cut at lastGoodOffset.
RECURSIVE ReplayFrom(_, _, _, _)
ReplayFrom(f, pos, cm, t) ==
    IF pos > Len(f) THEN [cm |-> cm, offset |-> Len(f)]
    ELSE LET nl == IndexLF(f, pos)
             end == IF nl = 0 THEN Len(f) ELSE nl
             r == applyLine(cm, TrimRightCRLF(SubSeq(f, pos, end)), t)
         IN  IF r.ok THEN ReplayFrom(f, end + 1, r.cm, t)
             ELSE [cm |-> cm, offset |-> pos - 1]

\* The bytes the shard holds: shard.mem.
ShardMem(m) ==
    LET RECURSIVE Sum(_)
        Sum(ks) == IF ks = {} THEN 0
                   ELSE LET k == CHOOSE x \in ks : TRUE
                        IN  Len(k) + Len(m[k].Value) + Sum(ks \ {k})
    IN  Sum(DOMAIN m)

\* AOFPersister.Replay at the start of the server.
AOFPersister_Replay ==
    /\ phase = "down"
    /\ LET r == ReplayFrom(aofDisk, 1, EmptyShards, now)
       IN  /\ cmItems' = r.cm
           /\ cmMem' = [i \in Shards |-> ShardMem(r.cm[i])]
           /\ aofDisk' = SubSeq(aofDisk, 1, r.offset)
    /\ phase' = "up"
    /\ UNCHANGED << now, svcMemUsage, requests, hits, misses, tmHeap, tmStopped,
                    cfg, restoredFrom, tampered, found, auxVars, histVars, engineVars,
                    aofExists, aofOpen, rewriting, incBuf, tmpDisk, rdbDir, svcVars, procVars >>

\* The lines of the logs: sets of "a" without expiry, expired and expiring
\* later, a delete of "a", a set of "b", and a line that is no record.
LogLines ==
    { SetLine(KeyA, ValShort, 0), SetLine(KeyA, ValLong, Epoch - 1),
      SetLine(KeyA, ValLong, Epoch + 5), DelLine(KeyA), SetLine(KeyB, ValShort, 0),
      << 120, LF >> }

RECURSIVE LogsUpTo(_)
LogsUpTo(n) ==
    IF n = 0 THEN { << >> }
    ELSE LogsUpTo(n - 1) \cup { f \o l : f \in LogsUpTo(n - 1), l \in LogLines }

InitReplay ==
    /\ aofDisk \in LogsUpTo(MaxLines)
    /\ tmpDisk = << >> /\ rdbDir = EmptyMap
    /\ tampered = FALSE /\ fullLog = << >>
    /\ lastSaved = [op |-> "", map |-> EmptyMap]
    /\ found = [log |-> FALSE, snap |-> FALSE]
    /\ opsStarted = 0 /\ snapsStarted = 0
    /\ now = Epoch
    /\ FreshMemory
    /\ phase = "down"
    /\ cfg = [aof |-> TRUE, rdb |-> FALSE]
    /\ restoredFrom = "none"
    /\ aofExists = TRUE /\ aofOpen = FALSE

NextReplay == AOFPersister_Replay

SpecReplay == InitReplay /\ [][NextReplay]_vars

\* The ConcurrentMap as one map.
CmMap(cm) == [k \in UNION { DOMAIN cm[i] : i \in Shards } |-> cm[getShard(k)][k]]

\* C30: after a replay a key is present iff its last record in the parsed
\* prefix of the log is a SET without expiry or expiring in the future, and
\* it has that record's value and expiry; a key whose last SET is expired is
\* absent whatever the records before it.
C30_ReplayLastWriteWins ==
    [][(phase = "down" /\ phase' = "up")
          => CmMap(cmItems') = Live(Replayed(aofDisk'), now)]_vars

(***************************************************************************)
(* SpecRewrite: one client that sets and deletes keys while the background *)
(* goroutine rewrites the log, every failure of a rewrite included. The    *)
(* goroutine inside AOF.Rewrite keeps running: a.mu is held for the        *)
(* critical sections only, and every file operation returns.               *)
(***************************************************************************)
RewriteStep ==
    \/ AOF_RewriteCopy
    \/ AOF_RewriteRename
    \/ AOF_RewriteFail
    \/ AOF_RewriteRenameFail
    \/ AOF_RewriteReopenFail

NextRewrite ==
    \/ \E key \in Keys, value \in Values, ttl \in TTLs : Service_Set("c1", key, value, ttl)
    \/ \E key \in Keys : Service_Delete("c1", key)
    \/ Engine_SetLock("c1")
    \/ Engine_SetStore("c1")
    \/ Engine_SetPush("c1")
    \/ AOF_append("c1")
    \/ Service_recordChange("c1")
    \/ Service_background
    \/ Engine_Snapshot("bg", "rwBegin")
    \/ AOF_RewriteBegin
    \/ RewriteStep

SpecRewrite == Init /\ [][NextRewrite]_vars /\ WF_vars(RewriteStep)

\* The background goroutine is inside AOF.Rewrite, past its first critical section.
InRewrite == pc["bg"] \in {"rwCopy", "rwRename"}

\* C31: rewriting is true exactly while the one call of Rewrite is past its
\* first critical section, so no second rewrite runs beside it; the step that
\* sets rewriting finds the log at least RewriteThreshold bytes long and
\* rewriting false, and leaves the incremental buffer empty; and every
\* rewrite, successful or failed, sets rewriting back to false.
C31_RewriteMutualExclusion ==
    /\ [](rewriting <=> InRewrite)
    /\ [][(~rewriting /\ rewriting')
             => /\ Len(aofDisk) >= RewriteThreshold
                /\ incBuf' = << >>
                /\ aofDisk' = aofDisk]_vars
    /\ (rewriting ~> ~rewriting)

\* A rewrite has replaced the log and returned.
C31_Witness ==
    /\ ~rewriting /\ pc["bg"] = "idle"
    /\ Len(aofDisk) > 0 /\ aofDisk # fullLog

\* C32: whenever no call is under way and the TTLManager is not stopped, the
\* start of the server included, every key of the map stored with an expiry
\* that has not passed has an item {key, expiresAt} in the heap.
C32_HeapCoversUnexpiredKeys ==
    (phase = "up" /\ ~tmStopped /\ \A p \in Clients : pc[p] = "idle")
        => \A k \in DOMAIN CmMap(cmItems) :
              LET e == CmMap(cmItems)[k]
              IN  (e.ExpiresAt > 0 /\ e.ExpiresAt > now)
                     => \E n \in DOMAIN tmHeap :
                           tmHeap[n].key = k /\ tmHeap[n].expiresAt = e.ExpiresAt

(***************************************************************************)
(* SpecSleep: the Service over ConcurrentMap with one client that sets     *)
(* keys with a TTL, and the goroutine of the TTLManager with its waits.    *)
(* One unit of the clock is one second here.                               *)
(***************************************************************************)
\* time.Second in units of the clock.
SleepSecond == 1
\* The longer of the TTLs of the sets, in seconds.
LongTTL == 3
\* Seconds the clock advances.
MaxSleepTime == 4

SleepTTLs == {1, LongTTL}

\* TTLManager.process when nothing is due: with an empty heap it unlocks and
\* calls time.Sleep(1 * time.Second); with the top of the heap in the future
\* it unlocks and waits for stopCh or time.After(item.ExpiresAt - now).
\* `t` is the time the wait ends at, `ok` whether stopCh ends it too.
TTLManager_processWait ==
    /\ phase = "up" /\ pc["ttl"] = "idle" /\ ~tmStopped
    /\ (IF tmHeap = << >> THEN TRUE ELSE tmHeap[1].expiresAt > now)
    /\ pc' = [pc EXCEPT !["ttl"] = "sleep"]
    /\ loc' = [loc EXCEPT !["ttl"].t = IF tmHeap = << >> THEN now + SleepSecond
                                       ELSE tmHeap[1].expiresAt,
                          !["ttl"].ok = (tmHeap # << >>)]
    /\ UNCHANGED << now, mapVars, engineGen, opsStarted >>

\* The wait of process ends and process returns to run.
TTLManager_processWake ==
    /\ pc["ttl"] = "sleep"
    /\ (now >= loc["ttl"].t \/ (loc["ttl"].ok /\ tmStopped))
    /\ Return("ttl")
    /\ UNCHANGED << now, mapVars, engineGen, opsStarted >>

\* A second passes.
Clock_Second ==
    /\ now < Epoch + MaxSleepTime
    /\ now' = now + 1
    /\ UNCHANGED << mapVars, engineGen, procVars >>

NextSleep ==
    \/ \E key \in SeqKeys, value \in Values, ttl \in SleepTTLs : MapService_Set("c1", key, value, ttl)
    \/ MapService_recordRequest("c1")
    \/ MapService_SetCheck("c1")
    \/ ConcurrentMap_Set("c1")
    \/ MapService_AddMem("c1")
    \/ TTLManager_Add("c1")
    \/ TTLManager_process
    \/ onExpire
    \/ TTLManager_processWait
    \/ TTLManager_processWake
    \/ TTLManager_Stop
    \/ Clock_Second

SpecSleep == InitMap /\ [][NextSleep]_vars

\* C33: the expirer never begins a wait longer than one second, so an item
\* pushed with an earlier expiry while it waits is looked at within a second
\* of its expiry.
C33_ExpirerSleepsAtMostOneSecond ==
    [][(pc["ttl"] = "idle" /\ pc'["ttl"] = "sleep")
          => loc'["ttl"].t - now <= SleepSecond]_vars

\* C34: once stopCh is closed the TTL worker, back at the select of its
\* loop, begins no further round of eviction: its next step is to leave the
\* loop; and once it has left it stays so while the process runs.
C34_ExpirerExitsAtNextIteration ==
    [][/\ (stopCh /\ pc["ttl"] = "idle") => pc'["ttl"] \in {"idle", "done"}
       /\ (pc["ttl"] = "done" /\ phase' = "up") => pc'["ttl"] = "done"]_vars

\* C35: the file a rewrite builds from its snapshot and its incremental
\* buffer holds every write the log holds: when the client has no call under
\* way as the tmp file of the first rewrite of the log is written, replaying
\* the tmp file gives what replaying the log gives.
C35_SnapshotAndBufferCoverLog ==
    [][(/\ pc["bg"] = "rwCopy" /\ pc'["bg"] = "rwRename"
        /\ pc["c1"] = "idle" /\ aofDisk = fullLog)
          => Live(Replayed(tmpDisk'), now) = Live(Replayed(aofDisk), now)]_vars

(***************************************************************************)
(* SpecTail: kvd is started with the log enabled on a log whose last line  *)
(* may have been cut short (a write the process did not finish), written   *)
(* to by one client, killed and started again.                             *)
(***************************************************************************)
\* The beginnings of a record whose write stopped before its LF.
PartialLines ==
    LET line == SetLine(KeyB, ValShort, 0)
    IN  { SubSeq(line, 1, n) : n \in 0 .. Len(line) - 1 }

InitTail ==
    /\ aofDisk \in { f \o t : f \in LogsUpTo(1), t \in PartialLines }
    /\ tmpDisk = << >> /\ rdbDir = EmptyMap
    /\ tampered = FALSE /\ fullLog = << >>
    /\ lastSaved = [op |-> "", map |-> EmptyMap]
    /\ found = [log |-> FALSE, snap |-> FALSE]
    /\ opsStarted = 0 /\ snapsStarted = 0
    /\ now = Epoch
    /\ FreshMemory
    /\ phase = "down"
    /\ cfg = [aof |-> FALSE, rdb |-> FALSE]
    /\ restoredFrom = "none"
    /\ aofExists = TRUE /\ aofOpen = FALSE

NextTail ==
    \/ Start([aof |-> TRUE, rdb |-> FALSE])
    \/ Crash
    \/ \E key \in Keys, value \in Values, ttl \in TTLs : Service_Set("c1", key, value, ttl)
    \/ Engine_SetLock("c1")
    \/ Engine_SetStore("c1")
    \/ Engine_SetPush("c1")
    \/ AOF_append("c1")
    \/ Service_recordChange("c1")

SpecTail == InitTail /\ [][NextTail]_vars

\* The file is a sequence of lines that parse, the last one ended by its LF.
EndsOnRecordBoundary(f) == parseAOF(f).ok /\ parseAOF(f).offset = Len(f)

\* C36: when kvd has started with the log enabled, the log file is exactly
\* the lines that were parsed, so that it ends on a record boundary.
C36_LogEndsOnRecordBoundary ==
    [][(phase = "down" /\ phase' = "up" /\ cfg'.aof) => EndsOnRecordBoundary(aofDisk')]_vars

(***************************************************************************)
(* SpecSave: RDB.Save in its steps (the tmp file is opened and truncated,  *)
(* the encoding written, the file closed and renamed), with a manual       *)
(* snapshot of a client beside the auto-save of Service.background.        *)
(***************************************************************************)
TmpSuffix == << 46, 116, 109, 112 >>

\* fullPath + ".tmp"
TmpName(t) == DumpName(t) \o TmpSuffix

\* The content of a file after `data` is written at offset 0 through a
\* descriptor of its own: the bytes beyond the write stay.
Overlay(content, data) == data \o SubSeq(content, Len(data) + 1, Len(content))

SavePhases == {"saveWrite", "saveRename"}

\* RDB.Save: the name from time.Now().Unix(), and
\* os.OpenFile(tmpPath, O_CREATE|O_TRUNC|O_WRONLY).
RDB_SaveOpen(p) ==
    /\ pc[p] = "saveOpen"
    /\ rdbDir' = MapPut(rdbDir, TmpName(now), << >>)
    /\ loc' = [loc EXCEPT ![p].t = now, ![p].fd = "tmp"]
    /\ pc' = [pc EXCEPT ![p] = "saveWrite"]
    /\ UNCHANGED << now, mapVars, runVars, auxVars, histVars, engineVars, aofVars, svcVars,
                    opsStarted, snapsStarted >>

\* enc.Encode(records); f.Sync(); f.Close(): the encoding goes to the file
\* the descriptor refers to, whatever its name is by now.
RDB_SaveWrite(p) ==
    LET target == IF loc[p].fd = "tmp" THEN TmpName(loc[p].t) ELSE DumpName(loc[p].t)
    IN  /\ pc[p] = "saveWrite"
        /\ rdbDir' = IF loc[p].fd = "gone" THEN rdbDir
                     ELSE MapPut(rdbDir, target, Overlay(rdbDir[target], GobEncode(loc[p].snap)))
        /\ pc' = [pc EXCEPT ![p] = "saveRename"]
        /\ UNCHANGED << now, mapVars, runVars, auxVars, histVars, engineVars, aofVars, svcVars,
                        loc, opsStarted, snapsStarted >>

\* os.Rename(tmpPath, fullPath), an error when the tmp file is there no more;
\* then the caller goes on: Service.Snapshot returns, maybeAutoSnapshot
\* resets changeTimes whatever Save returned, Close closes the log.
RDB_SaveRename(p) ==
    LET tmp == TmpName(loc[p].t)
        full == DumpName(loc[p].t)
        renamed == tmp \in DOMAIN rdbDir
        Moved(q) == IF ~renamed \/ pc[q] \notin SavePhases \/ loc[q].t # loc[p].t THEN loc[q]
                    ELSE [loc[q] EXCEPT !.fd = IF @ = "tmp" THEN "full" ELSE "gone"]
    IN  /\ pc[p] = "saveRename"
        /\ rdbDir' = IF renamed THEN MapDel(MapPut(rdbDir, full, rdbDir[tmp]), tmp) ELSE rdbDir
        /\ lastSaved' = IF renamed THEN [op |-> loc[p].op, map |-> loc[p].pre] ELSE lastSaved
        /\ loc' = [q \in Procs |-> IF q = p THEN NoLocals ELSE Moved(q)]
        /\ pc' = [pc EXCEPT ![p] = IF loc[p].op = "close" THEN "aofClose"
                                   ELSE IF loc[p].op = "auto" THEN "reset" ELSE "idle"]
        /\ UNCHANGED << now, mapVars, runVars, auxVars, fullLog, lastWrite, engineVars, aofVars,
                        svcVars, opsStarted, snapsStarted >>

NextSave ==
    \/ \E key \in Keys, value \in Values : Service_Set("c1", key, value, 0)
    \/ Engine_SetLock("c1")
    \/ Engine_SetStore("c1")
    \/ Service_recordChange("c1")
    \/ Service_Snapshot("c1")
    \/ Engine_Snapshot("c1", "saveOpen")
    \/ Ticker_Tick
    \/ Service_maybeAutoSnapshot
    \/ Engine_Snapshot("bg", "saveOpen")
    \/ \E p \in {"c1", "bg"} : RDB_SaveOpen(p)
    \/ \E p \in {"c1", "bg"} : RDB_SaveWrite(p)
    \/ \E p \in {"c1", "bg"} : RDB_SaveRename(p)
    \/ Service_resetChanges

SpecSave == InitAuto /\ [][NextSave]_vars

\* C37: a snapshot file named dump-<n>.rdb gets its content in one piece from
\* one Save: whenever such a file appears or changes, its content is the
\* complete encoding of the snapshot of one Save under way.
C37_SnapshotFileIsOneEncoding ==
    [][\A n \in Candidates(rdbDir') :
          (n \notin DOMAIN rdbDir \/ rdbDir'[n] # rdbDir[n])
             => \E q \in Procs : /\ pc[q] \in SavePhases
                                 /\ rdbDir'[n] = GobEncode(loc[q].snap)]_vars

\* The sequence s ends with the sequence t.
EndsWith(s, t) == Len(s) >= Len(t) /\ SubSeq(s, Len(s) - Len(t) + 1, Len(s)) = t

\* C38: the changes recorded since maybeAutoSnapshot copied the change list
\* are still in the list when it has reset it, and it resets the list only
\* after a Save that succeeded.
C38_AutoSaveAccountingKeepsChanges ==
    [][/\ (pc["bg"] = "reset" /\ pc'["bg"] = "idle") => EndsWith(changeTimes', unsaved)
       /\ (pc["bg"] = "saveRename" /\ TmpName(loc["bg"].t) \notin DOMAIN rdbDir)
             => pc'["bg"] # "reset"]_vars

\* C39: when Service.Close has returned, whatever failed on its way, the
\* storage engine is closed and its TTL worker has left its loop.
C39_CloseCompletesEveryStep ==
    (phase = "up" /\ pc["closer"] = "done") => (closed /\ stopCh /\ pc["ttl"] = "done")

(***************************************************************************)
(* SpecPersister: the AOFPersister over a ConcurrentMap: Replay of a log,  *)
(* then AppendSet and AppendDel, the rewrite they set off, and Close.      *)
(***************************************************************************)
\* AOFPersister.appendLine under p.mu: openForAppendLocked opens the file
\* when p.file is nil, the line is written and, while a rewrite runs, kept
\* in incrBuf; maybeTriggerRewriteLocked then starts a rewrite when the file
\* has reached the threshold and none runs.
AOFPersister_appendLine(line) ==
    LET trigger == RewriteThreshold > 0 /\ ~rewriting /\ Len(aofDisk \o line) >= RewriteThreshold
    IN  /\ phase = "up" /\ opsStarted < MaxOps
        /\ opsStarted' = opsStarted + 1
        /\ aofOpen' = TRUE
        /\ aofExists' = TRUE
        /\ aofDisk' = aofDisk \o line
        /\ incBuf' = IF trigger THEN << >> ELSE IF rewriting THEN incBuf \o line ELSE incBuf
        /\ rewriting' = (rewriting \/ trigger)
        /\ pc' = IF trigger THEN [pc EXCEPT !["bg"] = "rwIterate"] ELSE pc
        /\ UNCHANGED << now, mapVars, runVars, auxVars, histVars, engineVars, tmpDisk, rdbDir,
                        svcVars, loc, snapsStarted >>

AOFPersister_AppendSet(key, value, expiresAt) ==
    AOFPersister_appendLine(SetLine(key, value, expiresAt))

AOFPersister_AppendDel(key) == AOFPersister_appendLine(DelLine(key))

\* AOFPersister.rewrite: the tmp file is truncated and gets a SET line for
\* every entry of the map not expired, in the order of the iteration.
AOFPersister_rewriteIterate ==
    LET m == CmMap(cmItems)
    IN  /\ pc["bg"] = "rwIterate"
        /\ \E order \in Orderings(SnapshotKeys(m, now)) :
              tmpDisk' = SnapshotLines(RecordsOf(m, order))
        /\ pc' = [pc EXCEPT !["bg"] = "rwBuf"]
        /\ UNCHANGED << now, mapVars, runVars, auxVars, histVars, engineVars, aofExists, aofDisk,
                        aofOpen, rewriting, incBuf, rdbDir, svcVars, loc, opsStarted, snapsStarted >>

\* rewrite: incrBuf is copied under p.mu and the copy written to the tmp
\* file, which is synced and closed.
AOFPersister_rewriteBuf ==
    /\ pc["bg"] = "rwBuf"
    /\ tmpDisk' = tmpDisk \o incBuf
    /\ pc' = [pc EXCEPT !["bg"] = "rwSwap"]
    /\ UNCHANGED << now, mapVars, runVars, auxVars, histVars, engineVars, aofExists, aofDisk,
                    aofOpen, rewriting, incBuf, rdbDir, svcVars, loc, opsStarted, snapsStarted >>

\* rewrite, under p.mu again: p.file is closed, the log removed, the tmp file
\* renamed to it and the log opened for appending by openForAppendLocked.
AOFPersister_rewriteSwap ==
    /\ pc["bg"] = "rwSwap"
    /\ aofDisk' = tmpDisk
    /\ tmpDisk' = << >>
    /\ aofExists' = TRUE
    /\ aofOpen' = TRUE
    /\ rewriting' = FALSE
    /\ incBuf' = << >>
    /\ pc' = [pc EXCEPT !["bg"] = "idle"]
    /\ UNCHANGED << now, mapVars, runVars, auxVars, histVars, engineVars, rdbDir, svcVars, loc,
                    opsStarted, snapsStarted >>

\* rewrite when os.Rename fails: the log is removed already and p.file nil.
AOFPersister_rewriteSwapFail ==
    /\ pc["bg"] = "rwSwap"
    /\ aofDisk' = << >>
    /\ aofExists' = FALSE
    /\ aofOpen' = FALSE
    /\ rewriting' = FALSE
    /\ pc' = [pc EXCEPT !["bg"] = "idle"]
    /\ UNCHANGED << now, mapVars, runVars, auxVars, histVars, engineVars, incBuf, tmpDisk, rdbDir,
                    svcVars, loc, opsStarted, snapsStarted >>

\* AOFPersister.Close under p.mu: p.file is closed and set to nil.
AOFPersister_Close ==
    /\ phase = "up" /\ pc["closer"] = "idle"
    /\ aofOpen' = FALSE
    /\ pc' = [pc EXCEPT !["closer"] = "done"]
    /\ UNCHANGED << now, mapVars, runVars, auxVars, histVars, engineVars, aofExists, aofDisk,
                    rewriting, incBuf, tmpDisk, rdbDir, svcVars, loc, opsStarted, snapsStarted >>

NextPersister ==
    \/ AOFPersister_Replay
    \/ \E key \in Keys, value \in {ValShort} : AOFPersister_AppendSet(key, value, 0)
    \/ \E key \in Keys : AOFPersister_AppendDel(key)
    \/ AOFPersister_rewriteIterate
    \/ AOFPersister_rewriteBuf
    \/ AOFPersister_rewriteSwap
    \/ AOFPersister_rewriteSwapFail
    \/ AOFPersister_Close

SpecPersister == InitReplay /\ [][NextPersister]_vars

\* C40: once Close of the log has returned the file stays closed: p.file is
\* nil, and not a byte is appended to the log.
C40_ClosedLogStaysClosed ==
    /\ [](pc["closer"] = "done" => ~aofOpen)
    /\ [][pc["closer"] = "done" => (aofDisk' = aofDisk \/ pc["bg"] = "rwSwap")]_vars

====
